---- MODULE Spec2Model ----
(***************************************************************************)
(* A model of the two game engines of the repository: the Tetris component *)
(* (src/unnamed/part_001, TetrisGame.jsx) and the Snake component          *)
(* (src/src/SnakeGame.jsx).  Each event handler of a component (a timer    *)
(* tick, a key press, a button click) is one action; React runs a handler  *)
(* to completion on the state of the last render, applies the queued state *)
(* updates and re-renders before the next event is delivered.              *)
(***************************************************************************)
EXTENDS Integers, Sequences, FiniteSets, TLC

VARIABLES
    \* ---- TetrisGame component state (part_001:93-97)
    board,          \* board[y+1][x+1]: EmptyCell or the colour of a locked cell
    currentPiece,   \* [type, shape, color, x, y]
    tetrisScore,    \* score
    tetrisGameOver, \* gameOver
    isPaused,
    \* ---- observation of the Tetris run (not program state)
    tetrisEvent,    \* the handler that ran last
    locks,          \* number of placePiece calls since the last restart
    inputs,         \* number of key and button events so far
    linesCleared,   \* rows cleared since the last restart
    \* ---- SnakeGame component state (SnakeGame.jsx:5-24)
    snake,          \* sequence of [x, y], head first
    food,           \* [x, y]
    direction,      \* [x, y]
    gameStarted,
    snakeGameOver,  \* gameOver
    paused,
    snakeScore,     \* score
    deathReason,    \* "null" or the reason string
    collisionPoint, \* <<>> (null) or <<[x, y]>>
    obstacles,      \* sequence of [x, y, age]
    powerUps,       \* sequence of [x, y, type, age]
    activePowerUps, \* sequence of [type, timeLeft]
    gameInterval,   \* the live timers of the game loop effect, each by the
                    \* interval it was created with
    \* ---- the application around the games
    activeTab,      \* App.jsx: the tab whose component is mounted
    strictDev,      \* main.jsx: React.StrictMode in a development build
    \* ---- observation of the Snake run (not program state)
    snakeEvent,     \* the handler that ran last
    tickLog,        \* what the last timer tick did
    ticksDone,      \* ticks that were not skipped so far
    snakeInputs,    \* number of key and button events so far
    \* ---- pure-function probes
    probe

tetrisVars == <<board, currentPiece, tetrisScore, tetrisGameOver, isPaused,
                tetrisEvent, locks, inputs, linesCleared>>
snakeVars == <<snake, food, direction, gameStarted, snakeGameOver, paused,
               snakeScore, deathReason, collisionPoint, obstacles, powerUps,
               activePowerUps, gameInterval, snakeEvent, tickLog, ticksDone,
               snakeInputs>>
appVars == <<activeTab, strictDev>>
vars == <<tetrisVars, snakeVars, appVars, probe>>

(***************************************************************************)
(* Bounds of the model.                                                    *)
(***************************************************************************)
\* placePiece calls explored in one run
MaxLocks == 1
\* key and button events explored in one run
MaxInputs == 2

(***************************************************************************)
(* Tetris: constants and pure helpers.                                     *)
(***************************************************************************)
BOARD_WIDTH == 15
BOARD_HEIGHT == 15

\* The value 0 of an empty board cell; locked cells hold a colour string.
EmptyCell == "0"

PieceTypes == {"I", "O", "T", "S", "Z", "J", "L"}

TETROMINOES ==
    [I |-> [shape |-> << <<0, 0, 0, 0>>,
                         <<1, 1, 1, 1>>,
                         <<0, 0, 0, 0>>,
                         <<0, 0, 0, 0>> >>, color |-> "#00f0f0"],
     O |-> [shape |-> << <<1, 1>>,
                         <<1, 1>> >>, color |-> "#f0f000"],
     T |-> [shape |-> << <<0, 1, 0>>,
                         <<1, 1, 1>>,
                         <<0, 0, 0>> >>, color |-> "#a000f0"],
     S |-> [shape |-> << <<0, 1, 1>>,
                         <<1, 1, 0>>,
                         <<0, 0, 0>> >>, color |-> "#00f000"],
     Z |-> [shape |-> << <<1, 1, 0>>,
                         <<0, 1, 1>>,
                         <<0, 0, 0>> >>, color |-> "#f00000"],
     J |-> [shape |-> << <<1, 0, 0>>,
                         <<1, 1, 1>>,
                         <<0, 0, 0>> >>, color |-> "#0000f0"],
     L |-> [shape |-> << <<0, 0, 1>>,
                         <<1, 1, 1>>,
                         <<0, 0, 0>> >>, color |-> "#f0a000"]]

Colors == {TETROMINOES[t].color : t \in PieceTypes}

createEmptyBoard ==
    [y \in 1..BOARD_HEIGHT |-> [x \in 1..BOARD_WIDTH |-> EmptyCell]]

\* getRandomPiece with the outcome t of its Math.random draw
getRandomPiece(t) ==
    [type  |-> t,
     shape |-> TETROMINOES[t].shape,
     color |-> TETROMINOES[t].color,
     x     |-> (BOARD_WIDTH \div 2) - (Len(TETROMINOES[t].shape[1]) \div 2),
     y     |-> 0]

\* isValidMove without the allowance for cells above the top row
isValidMoveNoSpawnRows(b, newX, newY, newShape) ==
    \A y \in 0..(Len(newShape) - 1) :
        \A x \in 0..(Len(newShape[y + 1]) - 1) :
            newShape[y + 1][x + 1] # 0 =>
                LET boardX == newX + x
                    boardY == newY + y
                IN  /\ ~(boardX < 0 \/ boardX >= BOARD_WIDTH \/ boardY >= BOARD_HEIGHT)
                    /\ boardY >= 0
                    /\ b[boardY + 1][boardX + 1] = EmptyCell

\* isValidMove(piece, newX, newY, newShape) evaluated on the board b its
\* closure holds
isValidMove(b, newX, newY, newShape) ==
    \A y \in 0..(Len(newShape) - 1) :
        \A x \in 0..(Len(newShape[y + 1]) - 1) :
            newShape[y + 1][x + 1] # 0 =>
                LET boardX == newX + x
                    boardY == newY + y
                IN  /\ ~(boardX < 0 \/ boardX >= BOARD_WIDTH \/ boardY >= BOARD_HEIGHT)
                    /\ ~(boardY >= 0 /\ b[boardY + 1][boardX + 1] # EmptyCell)

\* rotatePiece without the .reverse(): a transposition
rotatePieceNoReverse(shape) ==
    [index \in 1..Len(shape[1]) |->
        [k \in 1..Len(shape) |-> shape[k][index]]]

\* rotatePiece: column index of the shape becomes a row, read bottom to top
rotatePiece(shape) ==
    [index \in 1..Len(shape[1]) |->
        [k \in 1..Len(shape) |-> shape[Len(shape) + 1 - k][index]]]

\* TRUE iff the piece p has a filled cell on board cell (boardX, boardY)
PieceCovers(p, boardX, boardY) ==
    LET x == boardX - p.x
        y == boardY - p.y
    IN  /\ y \in 0..(Len(p.shape) - 1)
        /\ x \in 0..(Len(p.shape[y + 1]) - 1)
        /\ p.shape[y + 1][x + 1] # 0

\* a placement that leaves nothing on the board
LockPieceLost(b, p) == b

\* placePiece, first part: newBoard, the board with the piece's cells
LockPiece(b, p) ==
    [r \in 1..BOARD_HEIGHT |->
        [c \in 1..BOARD_WIDTH |->
            IF r - 1 >= 0 /\ PieceCovers(p, c - 1, r - 1) THEN p.color ELSE b[r][c]]]

\* CompletedLines with some() in place of every()
CompletedLinesSome(b) ==
    {y \in 0..(BOARD_HEIGHT - 1) :
        \E x \in 1..BOARD_WIDTH : b[y + 1][x] # EmptyCell}

\* placePiece: the indices of the rows with every cell non-empty
CompletedLines(b) ==
    {y \in 0..(BOARD_HEIGHT - 1) :
        \A x \in 1..BOARD_WIDTH : b[y + 1][x] # EmptyCell}

RECURSIVE FilterRows(_, _, _)
\* newBoard.filter((_, index) => !completedLines.includes(index)), from row i on
FilterRows(b, done, i) ==
    IF i > Len(b) THEN <<>>
    ELSE IF (i - 1) \in done THEN FilterRows(b, done, i + 1)
         ELSE <<b[i]>> \o FilterRows(b, done, i + 1)

\* ClearLines with the empty rows appended below instead of prepended
ClearLinesAppend(b) ==
    LET done == CompletedLines(b)
    IN  IF Cardinality(done) > 0
        THEN FilterRows(b, done, 1)
             \o [i \in 1..Cardinality(done) |-> [x \in 1..BOARD_WIDTH |-> EmptyCell]]
        ELSE b

\* placePiece: clearedBoard, or newBoard when no line is complete
ClearLines(b) ==
    LET done == CompletedLines(b)
    IN  IF Cardinality(done) > 0
        THEN [i \in 1..Cardinality(done) |-> [x \in 1..BOARD_WIDTH |-> EmptyCell]]
             \o FilterRows(b, done, 1)
        ELSE b

(***************************************************************************)
(* Tetris: the states a run starts from.  Besides the freshly mounted game *)
(* (empty board, a random piece at its spawn position) a run may start in  *)
(* the middle of a game: a board built by dropping pieces one after the    *)
(* other from row 0, and the next piece rotated and shifted along row 0,   *)
(* where every key event can arrive before the first timer tick.           *)
(***************************************************************************)
RECURSIVE Rotations(_, _)
\* rotatePiece applied n times
Rotations(shape, n) ==
    IF n = 0 THEN shape ELSE Rotations(rotatePiece(shape), n - 1)

RECURSIVE Fall(_, _, _, _)
\* the row at which moveDown stops a piece falling in column x from row y
Fall(b, shape, x, y) ==
    IF isValidMove(b, x, y + 1, shape) THEN Fall(b, shape, x, y + 1) ELSE y

\* a piece of type d[1], rotated d[2] times, at column d[3] on row 0
PieceAt(d) ==
    [getRandomPiece(d[1]) EXCEPT !.shape = Rotations(@, d[2]), !.x = d[3]]

RECURSIVE Tuple(_, _)
\* the first n values of f as an explicit tuple
Tuple(f, n) ==
    IF n = 0 THEN <<>> ELSE Append(Tuple(f, n - 1), f[n])

\* the board b written out cell by cell
Grid(b) ==
    Tuple([r \in 1..BOARD_HEIGHT |-> Tuple(b[r], BOARD_WIDTH)], BOARD_HEIGHT)

\* the board after the piece p, placed on row 0, fell on b and locked
\* (a value bound over a singleton set is evaluated once)
Drop(b, p) ==
    CHOOSE nb \in {Grid(ClearLines(LockPiece(b, [p EXCEPT !.y = y]))) :
                      y \in {Fall(b, p.shape, p.x, 0)}} : TRUE

RECURSIVE DropAll(_, _)
\* the board after the pieces of ds were dropped one after the other on b
DropAll(b, ds) ==
    IF ds = <<>> THEN b
    ELSE CHOOSE r \in {DropAll(nb, Tail(ds)) : nb \in {Drop(b, PieceAt(Head(ds)))}} : TRUE

\* two O columns under the spawn position: rows 3..14 of columns 6,7 and
\* rows 1..14 of columns 8,9
TopOutDrops ==
    << <<"O", 0, 6>>, <<"O", 0, 6>>, <<"O", 0, 6>>, <<"O", 0, 6>>, <<"O", 0, 6>>,
       <<"O", 0, 6>>, <<"O", 0, 8>>, <<"O", 0, 8>>, <<"O", 0, 8>>, <<"O", 0, 8>>,
       <<"O", 0, 8>>, <<"O", 0, 8>>, <<"O", 0, 8>> >>

\* row 14 filled in columns 0..11, a Z lying on it
OneLineDrops ==
    << <<"I", 0, 0>>, <<"I", 0, 4>>, <<"I", 0, 8>>, <<"Z", 0, 2>> >>

\* rows 13,14 filled in columns 0..13, an S lying on them
TwoLinesDrops ==
    << <<"O", 0, 0>>, <<"O", 0, 2>>, <<"O", 0, 4>>, <<"O", 0, 6>>, <<"O", 0, 8>>,
       <<"O", 0, 10>>, <<"O", 0, 12>>, <<"S", 0, 3>> >>

\* rows 11..14 filled in columns 0..13
FourLinesDrops ==
    << <<"O", 0, 0>>, <<"O", 0, 2>>, <<"O", 0, 4>>, <<"O", 0, 6>>, <<"O", 0, 8>>,
       <<"O", 0, 10>>, <<"O", 0, 12>>,
       <<"O", 0, 0>>, <<"O", 0, 2>>, <<"O", 0, 4>>, <<"O", 0, 6>>, <<"O", 0, 8>>,
       <<"O", 0, 10>>, <<"O", 0, 12>> >>

\* rows 12 and 14 filled in columns 0..13, row 13 with a hole at column 11
SplitLinesDrops ==
    << <<"I", 0, 0>>, <<"I", 0, 4>>, <<"I", 0, 8>>, <<"O", 0, 12>>,
       <<"I", 0, 0>>, <<"I", 0, 4>>, <<"J", 0, 8>>,
       <<"I", 0, 0>>, <<"I", 0, 4>>, <<"I", 0, 9>>, <<"I", 1, 11>> >>

\* the stacks of TopOutDrops built after a row was completed and cleared
ClearedTopOutDrops == OneLineDrops \o << <<"L", 0, 12>> >> \o TopOutDrops

\* row 14 filled in columns 0..13 and an O column on it in columns 4,5 up to
\* row 1, next to the spawn columns of every piece but the I
ClearAndTopOutDrops ==
    << <<"I", 0, 0>>, <<"I", 0, 6>>, <<"I", 0, 10>>,
       <<"O", 0, 4>>, <<"O", 0, 4>>, <<"O", 0, 4>>, <<"O", 0, 4>>, <<"O", 0, 4>>,
       <<"O", 0, 4>>, <<"O", 0, 4>> >>

\* [drops, piece, cleared]: the pieces dropped so far, the piece in play and
\* the rows the drops completed
Scenarios ==
    {[drops |-> <<>>, piece |-> <<t, 0, getRandomPiece(t).x>>, cleared |-> 0] :
        t \in PieceTypes}
    \cup
    {[drops |-> TopOutDrops,     piece |-> <<"O", 0, 6>>,  cleared |-> 0],
     [drops |-> OneLineDrops,    piece |-> <<"L", 0, 12>>, cleared |-> 0],
     [drops |-> TwoLinesDrops,   piece |-> <<"I", 1, 12>>, cleared |-> 0],
     [drops |-> FourLinesDrops,  piece |-> <<"I", 1, 12>>, cleared |-> 0],
     [drops |-> SplitLinesDrops, piece |-> <<"I", 1, 12>>, cleared |-> 0],
     [drops |-> <<>>,            piece |-> <<"T", 0, 0>>,  cleared |-> 0],
     [drops |-> <<>>,            piece |-> <<"I", 1, -2>>, cleared |-> 0],
     [drops |-> ClearedTopOutDrops, piece |-> <<"O", 0, 6>>, cleared |-> 1],
     [drops |-> ClearAndTopOutDrops, piece |-> <<"I", 1, 12>>, cleared |-> 0]}

(***************************************************************************)
(* Snake: constants and the state of a freshly mounted component.          *)
(***************************************************************************)
BOARD_SIZE == 20
MAX_OBSTACLES == 6
OBSTACLE_LIFETIME == 80
MAX_POWERUPS == 2
POWERUP_LIFETIME == 50
POWERUP_EFFECT_DURATION == 100

\* a numeric value is the fraction num / den; invincibility carries no number
POWERUP_TYPES ==
    [ SLOW_DOWN     |-> [effect |-> "gameSpeed", num |-> 1, den |-> 2],
      SPEED_UP      |-> [effect |-> "gameSpeed", num |-> 2, den |-> 1],
      SCORE_BOOST   |-> [effect |-> "scoreMultiplier", num |-> 2, den |-> 1],
      INVINCIBILITY |-> [effect |-> "invincible", num |-> 1, den |-> 1] ]

PowerUpTypeNames == {"SLOW_DOWN", "SPEED_UP", "SCORE_BOOST", "INVINCIBILITY"}

Cell(cx, cy) == [x |-> cx, y |-> cy]

NoTickLog == [skipped |-> TRUE, ate |-> FALSE, collected |-> "none",
              obstacle |-> "no", powerUp |-> "no"]

\* the useState initial values
GAME_SPEED == 150

SnakeMounted ==
    /\ snake = <<Cell(10, 10)>>
    /\ food = Cell(5, 5)
    /\ direction = Cell(0, 0)
    /\ gameStarted = FALSE
    /\ snakeGameOver = FALSE
    /\ paused = FALSE
    /\ snakeScore = 0
    /\ deathReason = "null"
    /\ collisionPoint = <<>>
    /\ obstacles = <<>>
    /\ powerUps = <<>>
    /\ activePowerUps = <<>>
    /\ gameInterval = <<[num |-> GAME_SPEED, den |-> 1]>>
    /\ snakeEvent = "mount"
    /\ tickLog = NoTickLog
    /\ ticksDone = 0
    /\ snakeInputs = 0

NoProbe == [fn |-> "none"]

TetrisInit ==
    /\ \E s \in Scenarios :
          /\ board = DropAll(createEmptyBoard, s.drops)
          /\ currentPiece = PieceAt(s.piece)
          /\ linesCleared = s.cleared
          /\ tetrisScore = 100 * s.cleared
    /\ tetrisGameOver = FALSE
    /\ isPaused = FALSE
    /\ tetrisEvent = "mount"
    /\ locks = 0
    /\ inputs = 0
    /\ probe = NoProbe
    /\ SnakeMounted
    /\ activeTab = "tetris"
    /\ strictDev = FALSE

(***************************************************************************)
(* Tetris: handlers.                                                       *)
(***************************************************************************)
\* a score that grows with the square of the rows cleared together
LineScoreSquared(n) == n * n * 100

\* placePiece: the points for n rows completed by one placement
LineScore(n) == n * 100

\* The board the spawn check of placePiece reads: isValidMove closes over the
\* board of the last render, which setBoard has not replaced yet.
SpawnCheckBoard(oldBoard, newBoard) == oldBoard

\* a placement that ends the game whatever the spawn check says
placePieceEndsGame(t) ==
    LET newBoard == LockPiece(board, currentPiece)
        done     == CompletedLines(newBoard)
    IN  /\ board' = ClearLines(newBoard)
        /\ tetrisScore' = tetrisScore + LineScore(Cardinality(done))
        /\ linesCleared' = linesCleared + Cardinality(done)
        /\ locks' = locks + 1
        /\ tetrisGameOver' = TRUE
        /\ UNCHANGED <<currentPiece, isPaused>>

\* placePiece with the outcome t of getRandomPiece's draw
placePiece(t) ==
    LET newBoard == LockPiece(board, currentPiece)
        done     == CompletedLines(newBoard)
        after    == ClearLines(newBoard)
        newPiece == getRandomPiece(t)
    IN  /\ board' = after
        /\ tetrisScore' = tetrisScore + LineScore(Cardinality(done))
        /\ linesCleared' = linesCleared + Cardinality(done)
        /\ locks' = locks + 1
        /\ IF ~isValidMove(SpawnCheckBoard(board, after),
                           newPiece.x, newPiece.y, newPiece.shape)
           THEN /\ tetrisGameOver' = TRUE
                /\ UNCHANGED currentPiece
           ELSE /\ currentPiece' = newPiece
                /\ UNCHANGED tetrisGameOver
        /\ UNCHANGED isPaused

\* A run follows a game up to its MaxLocks-th lock, and on if that lock ended
\* the game
Exploring == locks < MaxLocks \/ tetrisGameOver

\* a gravity step that lets the piece rest where it cannot fall
moveDownNoLock(t) ==
    /\ currentPiece' =
          IF ~(tetrisGameOver \/ isPaused)
             /\ isValidMove(board, currentPiece.x, currentPiece.y + 1, currentPiece.shape)
          THEN [currentPiece EXCEPT !.y = @ + 1]
          ELSE currentPiece
    /\ UNCHANGED <<board, tetrisScore, tetrisGameOver, isPaused, locks,
                   linesCleared>>

\* a gravity step that locks the piece where it stands after three moves
moveDownFourSteps(t) ==
    IF tetrisGameOver \/ isPaused
    THEN UNCHANGED <<board, currentPiece, tetrisScore, tetrisGameOver,
                     isPaused, locks, linesCleared>>
    ELSE IF /\ currentPiece.y < 3
            /\ isValidMove(board, currentPiece.x, currentPiece.y + 1, currentPiece.shape)
         THEN /\ currentPiece' = [currentPiece EXCEPT !.y = @ + 1]
              /\ UNCHANGED <<board, tetrisScore, tetrisGameOver, isPaused,
                             locks, linesCleared>>
         ELSE placePiece(t)

\* a gravity step that does not look at isPaused
moveDownWhilePaused(t) ==
    IF tetrisGameOver
    THEN UNCHANGED <<board, currentPiece, tetrisScore, tetrisGameOver,
                     isPaused, locks, linesCleared>>
    ELSE IF isValidMove(board, currentPiece.x, currentPiece.y + 1, currentPiece.shape)
         THEN /\ currentPiece' = [currentPiece EXCEPT !.y = @ + 1]
              /\ UNCHANGED <<board, tetrisScore, tetrisGameOver, isPaused,
                             locks, linesCleared>>
         ELSE placePiece(t)

\* moveDown
moveDown(t) ==
    IF tetrisGameOver \/ isPaused
    THEN UNCHANGED <<board, currentPiece, tetrisScore, tetrisGameOver,
                     isPaused, locks, linesCleared>>
    ELSE IF isValidMove(board, currentPiece.x, currentPiece.y + 1, currentPiece.shape)
         THEN /\ currentPiece' = [currentPiece EXCEPT !.y = @ + 1]
              /\ UNCHANGED <<board, tetrisScore, tetrisGameOver, isPaused,
                             locks, linesCleared>>
         ELSE placePiece(t)

\* The auto-drop timer fires (setInterval(moveDown, 1000))
TetrisTick ==
    /\ Exploring
    /\ \E t \in PieceTypes : moveDown(t)
    /\ tetrisEvent' = "tick"
    /\ UNCHANGED <<inputs, probe, snakeVars, appVars>>

\* handleKeyPress, case 'ArrowLeft'
KeyArrowLeft ==
    /\ Exploring
    /\ inputs < MaxInputs
    /\ inputs' = inputs + 1
    /\ tetrisEvent' = "ArrowLeft"
    /\ IF ~(tetrisGameOver \/ isPaused)
          /\ isValidMove(board, currentPiece.x - 1, currentPiece.y, currentPiece.shape)
       THEN currentPiece' = [currentPiece EXCEPT !.x = @ - 1]
       ELSE UNCHANGED currentPiece
    /\ UNCHANGED <<board, tetrisScore, tetrisGameOver, isPaused, locks,
                   linesCleared, probe, snakeVars, appVars>>

\* handleKeyPress, case 'ArrowRight'
KeyArrowRight ==
    /\ Exploring
    /\ inputs < MaxInputs
    /\ inputs' = inputs + 1
    /\ tetrisEvent' = "ArrowRight"
    /\ IF ~(tetrisGameOver \/ isPaused)
          /\ isValidMove(board, currentPiece.x + 1, currentPiece.y, currentPiece.shape)
       THEN currentPiece' = [currentPiece EXCEPT !.x = @ + 1]
       ELSE UNCHANGED currentPiece
    /\ UNCHANGED <<board, tetrisScore, tetrisGameOver, isPaused, locks,
                   linesCleared, probe, snakeVars, appVars>>

\* handleKeyPress, case 'ArrowDown'
KeyArrowDown ==
    /\ Exploring
    /\ inputs < MaxInputs
    /\ inputs' = inputs + 1
    /\ tetrisEvent' = "ArrowDown"
    /\ \E t \in PieceTypes : moveDown(t)
    /\ UNCHANGED <<probe, snakeVars, appVars>>

\* a rotation that shifts the piece one column left when it does not fit
KeySpaceWallKick ==
    /\ Exploring
    /\ inputs < MaxInputs
    /\ inputs' = inputs + 1
    /\ tetrisEvent' = "Space"
    /\ LET rotatedShape == rotatePiece(currentPiece.shape)
       IN  IF tetrisGameOver \/ isPaused
           THEN UNCHANGED currentPiece
           ELSE IF isValidMove(board, currentPiece.x, currentPiece.y, rotatedShape)
                THEN currentPiece' = [currentPiece EXCEPT !.shape = rotatedShape]
                ELSE IF isValidMove(board, currentPiece.x - 1, currentPiece.y, rotatedShape)
                     THEN currentPiece' = [currentPiece EXCEPT !.shape = rotatedShape,
                                                               !.x = @ - 1]
                     ELSE UNCHANGED currentPiece
    /\ UNCHANGED <<board, tetrisScore, tetrisGameOver, isPaused, locks,
                   linesCleared, probe, snakeVars, appVars>>

\* handleKeyPress, case ' '
KeySpace ==
    /\ Exploring
    /\ inputs < MaxInputs
    /\ inputs' = inputs + 1
    /\ tetrisEvent' = "Space"
    /\ LET rotatedShape == rotatePiece(currentPiece.shape)
       IN  IF ~(tetrisGameOver \/ isPaused)
              /\ isValidMove(board, currentPiece.x, currentPiece.y, rotatedShape)
           THEN currentPiece' = [currentPiece EXCEPT !.shape = rotatedShape]
           ELSE UNCHANGED currentPiece
    /\ UNCHANGED <<board, tetrisScore, tetrisGameOver, isPaused, locks,
                   linesCleared, probe, snakeVars, appVars>>

\* handleKeyPress, key 'ArrowUp': the switch has no case for it
KeyArrowUp ==
    /\ Exploring
    /\ inputs < MaxInputs
    /\ inputs' = inputs + 1
    /\ tetrisEvent' = "ArrowUp"
    /\ UNCHANGED <<board, currentPiece, tetrisScore, tetrisGameOver, isPaused,
                   locks, linesCleared, probe, snakeVars, appVars>>

\* handleKeyPress, cases 'p' and 'P'
KeyP ==
    /\ Exploring
    /\ inputs < MaxInputs
    /\ inputs' = inputs + 1
    /\ tetrisEvent' = "p"
    /\ IF ~(tetrisGameOver \/ isPaused)
       THEN isPaused' = ~isPaused
       ELSE UNCHANGED isPaused
    /\ UNCHANGED <<board, currentPiece, tetrisScore, tetrisGameOver, locks,
                   linesCleared, probe, snakeVars, appVars>>

\* The pause button, rendered while the game is not over
PauseButton ==
    /\ ~tetrisGameOver
    /\ Exploring
    /\ inputs < MaxInputs
    /\ inputs' = inputs + 1
    /\ tetrisEvent' = "pauseButton"
    /\ isPaused' = ~isPaused
    /\ UNCHANGED <<board, currentPiece, tetrisScore, tetrisGameOver, locks,
                   linesCleared, probe, snakeVars, appVars>>

\* restartGame (the button rendered when the game is over), followed by the
\* initialization effect, which spawns a piece as soon as currentPiece is null
restartGame ==
    /\ tetrisGameOver
    /\ inputs < MaxInputs
    /\ inputs' = inputs + 1
    /\ tetrisEvent' = "restartButton"
    /\ board' = createEmptyBoard
    /\ \E t \in PieceTypes : currentPiece' = getRandomPiece(t)
    /\ tetrisScore' = 0
    /\ linesCleared' = 0
    /\ tetrisGameOver' = FALSE
    /\ isPaused' = FALSE
    /\ locks' = 0
    /\ UNCHANGED <<probe, snakeVars, appVars>>

TetrisNext ==
    \/ TetrisTick
    \/ KeyArrowLeft
    \/ KeyArrowRight
    \/ KeyArrowDown
    \/ KeyArrowUp
    \/ KeySpace
    \/ KeyP
    \/ PauseButton
    \/ restartGame

TetrisSpec == TetrisInit /\ [][TetrisNext]_vars

(***************************************************************************)
(* Snake: helpers over cells and the three token lists.                    *)
(***************************************************************************)
\* timer ticks that move the snake, explored in one game
MaxSnakeTicks == 2
\* key and button events explored in one run
MaxSnakeInputs == 2

Abs(n) == IF n < 0 THEN 0 - n ELSE n

AllCells == {Cell(cx, cy) : cx \in 0..(BOARD_SIZE - 1), cy \in 0..(BOARD_SIZE - 1)}

\* list.some(item => item.x === c.x && item.y === c.y)
SomeAt(list, c) == \E i \in 1..Len(list) : list[i].x = c.x /\ list[i].y = c.y

\* list.filter(item => !(item.x === c.x && item.y === c.y))
FilterNotAt(list, c) == SelectSeq(list, LAMBDA item : ~(item.x = c.x /\ item.y = c.y))

\* the random cells explored: the old food cell and these offsets from the head
DrawOffsets == {<<3, 0>>}

InBoard(c) == c.x >= 0 /\ c.x < BOARD_SIZE /\ c.y >= 0 /\ c.y < BOARD_SIZE

DrawCells ==
    {food} \cup {c \in {Cell(snake[1].x + o[1], snake[1].y + o[2]) : o \in DrawOffsets} :
                    InBoard(c)}

\* generateFood: the loop repeats while the cell is on the snake, an obstacle
\* or a power-up of the render the tick's callback was created in
FoodBlocked(c) == SomeAt(snake, c) \/ SomeAt(obstacles, c) \/ SomeAt(powerUps, c)

generateFood ==
    LET drawn == {c \in DrawCells : ~FoodBlocked(c)}
    IN  IF drawn # {} THEN drawn ELSE {c \in AllCells : ~FoodBlocked(c)}

\* generateObstacle: candidates on the rings 3..8 around the head
Ring(c) ==
    LET dx == Abs(c.x - snake[1].x)
        dy == Abs(c.y - snake[1].y)
    IN  IF dx > dy THEN dx ELSE dy

RingWeight(ring) ==
    IF ring = 3 THEN 5 ELSE IF ring = 4 THEN 4 ELSE IF ring = 5 THEN 3
    ELSE IF ring = 6 THEN 2 ELSE 1

ObstacleCandidates == {c \in AllCells : Ring(c) \in 3..8}

ObstacleBlocked(c) ==
    \/ SomeAt(snake, c)
    \/ (food.x = c.x /\ food.y = c.y)
    \/ SomeAt(obstacles, c)
    \/ SomeAt(powerUps, c)
    \/ (Abs(snake[1].x - c.x) <= 2 /\ Abs(snake[1].y - c.y) <= 2)
    \/ \E i \in 1..Len(snake) :
          Abs(snake[i].x - c.x) <= 1 /\ Abs(snake[i].y - c.y) <= 1

\* entries of the weighted candidate list that are not valid positions
BlockedEntries ==
    LET blocked == {c \in ObstacleCandidates : ObstacleBlocked(c)}
        n(ring) == Cardinality({c \in blocked : Ring(c) = ring})
    IN  RingWeight(3) * n(3) + RingWeight(4) * n(4) + RingWeight(5) * n(5)
        + RingWeight(6) * n(6) + RingWeight(7) * n(7) + RingWeight(8) * n(8)

\* a generator that gives back the last candidate it tried when none passed
generateObstacleStale ==
    {<<[x |-> c.x, y |-> c.y, age |-> 0]>> :
        c \in {d \in DrawCells : Ring(d) \in 3..8 /\ ~ObstacleBlocked(d)}}
    \cup (IF BlockedEntries >= 100 \/ \A c \in ObstacleCandidates : ObstacleBlocked(c)
          THEN {<<[x |-> snake[1].x + 3, y |-> snake[1].y, age |-> 0]>>} ELSE {})

\* the outcomes of generateObstacle: <<>> is null.  The first 100 entries of
\* the shuffled list are tried, so null needs 100 blocked entries or no valid
\* candidate at all.
generateObstacle ==
    {<<[x |-> c.x, y |-> c.y, age |-> 0]>> :
        c \in {d \in DrawCells : Ring(d) \in 3..8 /\ ~ObstacleBlocked(d)}}
    \cup (IF BlockedEntries >= 100 \/ \A c \in ObstacleCandidates : ObstacleBlocked(c)
          THEN {<<>>} ELSE {})

\* generatePowerUp: a random type and up to 100 random cells; <<>> is null,
\* the outcome of 100 draws of a refused cell (the food cell is always one)
PowerUpBlocked(c) ==
    \/ SomeAt(snake, c)
    \/ (food.x = c.x /\ food.y = c.y)
    \/ SomeAt(obstacles, c)
    \/ SomeAt(powerUps, c)

generatePowerUp ==
    {<<[x |-> c.x, y |-> c.y, type |-> t, age |-> 0]>> :
        c \in {d \in DrawCells : ~PowerUpBlocked(d)}, t \in PowerUpTypeNames}
    \cup (IF PowerUpBlocked(food) THEN {<<>>} ELSE {})

(***************************************************************************)
(* Snake: the timer tick (moveSnake).  The four updaters are queued by the *)
(* callback and run in the next render in hook order, so the updates the   *)
(* setSnake updater issues come after the tick's own update of the same    *)
(* state.  Everything else the callback reads is the state of the render   *)
(* it was created in, which is the state before the tick.                  *)
(***************************************************************************)
\* a test for an effect name that no power-up type has
isInvincibleWrongEffect ==
    \E i \in 1..Len(activePowerUps) :
        POWERUP_TYPES[activePowerUps[i].type].effect = "invincibility"

\* activePowerUps.some(effect === 'invincible'), on the effects of the last
\* render
isInvincible ==
    \E i \in 1..Len(activePowerUps) :
        POWERUP_TYPES[activePowerUps[i].type].effect = "invincible"

MovedHead == Cell(snake[1].x + direction.x, snake[1].y + direction.y)

OffBoard(h) == h.x < 0 \/ h.x >= BOARD_SIZE \/ h.y < 0 \/ h.y >= BOARD_SIZE

\* a reason that names the top wall for the bottom one and back
WallDeathSwapped(h) ==
    IF h.x < 0 THEN "wall-left wall"
    ELSE IF h.x >= BOARD_SIZE THEN "wall-right wall"
    ELSE IF h.y < 0 THEN "wall-bottom wall"
    ELSE "wall-top wall"

\* the reason of a wall death: the first comparison that fails names the wall
WallDeath(h) ==
    IF h.x < 0 THEN "wall-left wall"
    ELSE IF h.x >= BOARD_SIZE THEN "wall-right wall"
    ELSE IF h.y < 0 THEN "wall-top wall"
    ELSE "wall-bottom wall"

\* an invincible head that goes on beyond the wall
WrapHeadNone(h) == h

\* a head that is put back on the edge it left through
WrapHeadSameEdge(h) ==
    IF h.x < 0 THEN Cell(0, h.y)
    ELSE IF h.x >= BOARD_SIZE THEN Cell(BOARD_SIZE - 1, h.y)
    ELSE IF h.y < 0 THEN Cell(h.x, 0)
    ELSE IF h.y >= BOARD_SIZE THEN Cell(h.x, BOARD_SIZE - 1)
    ELSE h

\* the invincible head that left the board comes back in on the opposite edge
WrapHead(h) ==
    IF h.x < 0 THEN Cell(BOARD_SIZE - 1, h.y)
    ELSE IF h.x >= BOARD_SIZE THEN Cell(0, h.y)
    ELSE IF h.y < 0 THEN Cell(h.x, BOARD_SIZE - 1)
    ELSE IF h.y >= BOARD_SIZE THEN Cell(h.x, 0)
    ELSE h

\* a step that lets the head pass over obstacles
StepOutcomeNoObstacles ==
    IF OffBoard(MovedHead) /\ ~isInvincible
    THEN [death |-> WallDeath(MovedHead), head |-> MovedHead]
    ELSE LET head == WrapHead(MovedHead)
         IN  IF SomeAt(snake, head) /\ ~isInvincible
             THEN [death |-> "self-collision", head |-> head]
             ELSE [death |-> "null", head |-> head]

\* a step that lets the head take the cell of the tail
StepOutcomeTailFree ==
    IF OffBoard(MovedHead) /\ ~isInvincible
    THEN [death |-> WallDeath(MovedHead), head |-> MovedHead]
    ELSE LET head == WrapHead(MovedHead)
         IN  IF SomeAt(SubSeq(snake, 1, Len(snake) - 1), head) /\ ~isInvincible
             THEN [death |-> "self-collision", head |-> head]
             ELSE IF SomeAt(obstacles, head) /\ ~isInvincible
             THEN [death |-> "obstacle-collision", head |-> head]
             ELSE [death |-> "null", head |-> head]

\* the head the setSnake updater ends with and the collision it detects
StepOutcome ==
    IF OffBoard(MovedHead) /\ ~isInvincible
    THEN [death |-> WallDeath(MovedHead), head |-> MovedHead]
    ELSE LET head == WrapHead(MovedHead)
         IN  IF SomeAt(snake, head) /\ ~isInvincible
             THEN [death |-> "self-collision", head |-> head]
             ELSE IF SomeAt(obstacles, head) /\ ~isInvincible
             THEN [death |-> "obstacle-collision", head |-> head]
             ELSE [death |-> "null", head |-> head]

\* a head that never finds a power-up
PowerUpAtNone(head) == <<>>

\* powerUps.find(powerUp at head): <<>> or the first power-up on the cell
PowerUpAt(head) ==
    LET on == SelectSeq(powerUps, LAMBDA q : q.x = head.x /\ q.y = head.y)
    IN  IF on = <<>> THEN <<>> ELSE <<on[1]>>

\* food that costs points
FoodPenalty == 0 - 10

\* 10 * multiplier, the multiplier of the first score effect in the list
FoodPoints ==
    LET boosts == SelectSeq(activePowerUps,
                      LAMBDA a : POWERUP_TYPES[a.type].effect = "scoreMultiplier")
    IN  IF boosts = <<>> THEN 10
        ELSE (10 * POWERUP_TYPES[boosts[1].type].num) \div POWERUP_TYPES[boosts[1].type].den

\* a snake that keeps its tail on every move
foodEatenAlways(head) == TRUE

\* the food test of the updater: a head on the food keeps the tail
foodEaten(head) == head.x = food.x /\ head.y = food.y

\* age + 1 on every token, then the tokens that reached their lifetime go
AgeTokens(list, lifetime) ==
    SelectSeq([i \in 1..Len(list) |-> [list[i] EXCEPT !.age = @ + 1]],
              LAMBDA item : item.age < lifetime)

\* a decay that keeps the effects that reached 0 for one more tick
DecayEffectsKeepZero(list) ==
    SelectSeq([i \in 1..Len(list) |-> [list[i] EXCEPT !.timeLeft = @ - 1]],
              LAMBDA a : a.timeLeft >= 0)

\* timeLeft - 1 on every effect, then the effects at 0 go
DecayEffects(list) ==
    SelectSeq([i \in 1..Len(list) |-> [list[i] EXCEPT !.timeLeft = @ - 1]],
              LAMBDA a : a.timeLeft > 0)

\* a spawn step that does not look at the population
SpawnDrawsUncapped(aged, cap, generated) ==
    {[roll |-> FALSE, result |-> <<>>]}
    \cup {[roll |-> TRUE, result |-> r] : r \in generated}

\* the random draws of one spawn step: roll is Math.random() < chance
SpawnDraws(aged, cap, generated) ==
    {[roll |-> FALSE, result |-> <<>>]}
    \cup (IF Len(aged) < cap
          THEN {[roll |-> TRUE, result |-> r] : r \in generated}
          ELSE {})

SpawnLog(draw) ==
    IF ~draw.roll THEN "no" ELSE IF draw.result = <<>> THEN "null" ELSE "yes"

RECURSIVE GCD(_, _)
GCD(a, b) == IF b = 0 THEN a ELSE GCD(b, a % b)

\* the quotient of two fractions, in lowest terms
Divide(a, b) ==
    LET n == a.num * b.den
        d == a.den * b.num
    IN  [num |-> n \div GCD(n, d), den |-> d \div GCD(n, d)]

RECURSIVE SpeedAfter(_, _)
\* the forEach of getCurrentGameSpeed: currentSpeed after the effects of the
\* list, each gameSpeed effect dividing it by its value
SpeedAfter(currentSpeed, effects) ==
    IF effects = <<>> THEN currentSpeed
    ELSE SpeedAfter(IF POWERUP_TYPES[Head(effects).type].effect = "gameSpeed"
                    THEN Divide(currentSpeed, POWERUP_TYPES[Head(effects).type])
                    ELSE currentSpeed,
                    Tail(effects))

\* an interval set by the last speed effect of the list alone
getCurrentGameSpeedLastOnly(effects) ==
    LET speeds == SelectSeq(effects,
                      LAMBDA a : POWERUP_TYPES[a.type].effect = "gameSpeed")
    IN  IF speeds = <<>> THEN [num |-> GAME_SPEED, den |-> 1]
        ELSE Divide([num |-> GAME_SPEED, den |-> 1],
                    POWERUP_TYPES[speeds[Len(speeds)].type])

\* getCurrentGameSpeed on the effect list of the render: the milliseconds
\* between two ticks as a fraction in lowest terms (the divisions by 0.5 and
\* 2 are exact in floating point)
getCurrentGameSpeed(effects) ==
    SpeedAfter([num |-> GAME_SPEED, den |-> 1], effects)

\* an effect whose cleanup clears nothing
clearIntervalNothing(timers) == timers

\* the cleanup of the game loop effect: clearInterval on the timer the
\* effect created, the last one
clearInterval(timers) == SubSeq(timers, 1, Len(timers) - 1)

\* the game loop effect in the render after an event.  moveSnake is a new
\* function when one of its dependencies changed (generateFood and the other
\* generators change with the snake), getCurrentGameSpeed when the effect
\* list changed; then the cleanup of the previous run clears its timer and
\* the effect creates one with the interval of this render.  A dependency
\* that is a new object of the same content restarts the timer with the
\* interval it had.
gameLoopEffect ==
    gameInterval' =
        IF \/ <<direction, food, gameStarted, snakeGameOver, paused, snake,
                obstacles, powerUps>>'
                # <<direction, food, gameStarted, snakeGameOver, paused, snake,
                    obstacles, powerUps>>
           \/ activePowerUps' # activePowerUps
        THEN clearInterval(gameInterval) \o <<getCurrentGameSpeed(activePowerUps')>>
        ELSE gameInterval

\* how often the render calls the setSnake updater: StrictMode calls an
\* updater twice in a development build, and each call issues the updater's
\* own setScore and setActivePowerUps updates again
UpdaterRuns == IF strictDev THEN 2 ELSE 1

moveSnake(newFood, obstacleDraw, powerUpDraw) ==
    LET out == StepOutcome
        head == out.head
        dead == out.death # "null"
        collected == IF dead THEN <<>> ELSE PowerUpAt(head)
        ate == ~dead /\ foodEaten(head)
        agedPowerUps == AgeTokens(powerUps, POWERUP_LIFETIME) \o powerUpDraw.result
    IN  /\ snake' = IF dead THEN snake
                    ELSE IF ate THEN <<head>> \o snake
                    ELSE <<head>> \o SubSeq(snake, 1, Len(snake) - 1)
        /\ IF dead
           THEN /\ deathReason' = out.death
                /\ collisionPoint' = <<head>>
                /\ snakeGameOver' = TRUE
           ELSE UNCHANGED <<deathReason, collisionPoint, snakeGameOver>>
        /\ snakeScore' = IF ate THEN snakeScore + UpdaterRuns * FoodPoints
                         ELSE snakeScore
        /\ food' = IF ate THEN newFood ELSE food
        /\ obstacles' = AgeTokens(obstacles, OBSTACLE_LIFETIME) \o obstacleDraw.result
        /\ powerUps' = IF collected = <<>> THEN agedPowerUps
                       ELSE FilterNotAt(agedPowerUps, head)
        /\ activePowerUps' =
              DecayEffects(activePowerUps)
              \o (IF collected = <<>> THEN <<>>
                  ELSE [k \in 1..UpdaterRuns |->
                          [type |-> collected[1].type,
                           timeLeft |-> POWERUP_EFFECT_DURATION]])
        /\ tickLog' = [skipped |-> FALSE, ate |-> ate,
                       collected |-> IF collected = <<>> THEN "none"
                                     ELSE collected[1].type,
                       obstacle |-> SpawnLog(obstacleDraw),
                       powerUp |-> SpawnLog(powerUpDraw)]
        /\ UNCHANGED <<direction, gameStarted, paused>>

\* a tick that goes on while the game is paused
TickSkippedUnlessPaused ==
    ~gameStarted \/ snakeGameOver \/ (direction.x = 0 /\ direction.y = 0)

\* the early return of moveSnake
TickSkipped ==
    ~gameStarted \/ snakeGameOver \/ paused
    \/ (direction.x = 0 /\ direction.y = 0)

SnakeTick ==
    /\ gameInterval # <<>>
    /\ snakeEvent' = "tick"
    /\ IF TickSkipped
       THEN /\ tickLog' = NoTickLog
            /\ UNCHANGED <<snake, food, direction, gameStarted, snakeGameOver,
                           paused, snakeScore, deathReason, collisionPoint,
                           obstacles, powerUps, activePowerUps, ticksDone>>
       ELSE /\ ticksDone < MaxSnakeTicks
            /\ ticksDone' = ticksDone + 1
            /\ \E newFood \in (IF StepOutcome.death = "null" /\ foodEaten(StepOutcome.head)
                                THEN generateFood ELSE {food}),
                  obstacleDraw \in SpawnDraws(AgeTokens(obstacles, OBSTACLE_LIFETIME),
                                              MAX_OBSTACLES, generateObstacle),
                  powerUpDraw \in SpawnDraws(AgeTokens(powerUps, POWERUP_LIFETIME),
                                             MAX_POWERUPS, generatePowerUp) :
                  moveSnake(newFood, obstacleDraw, powerUpDraw)
    /\ UNCHANGED <<snakeInputs, tetrisVars, appVars, probe>>
    /\ gameLoopEffect

(***************************************************************************)
(* Snake: keyboard and buttons.                                            *)
(***************************************************************************)
\* a run is followed up to its last tick, and on after the end of a game
SnakeExploring == ticksDone < MaxSnakeTicks \/ snakeGameOver

SnakeKeyFrame ==
    /\ SnakeExploring
    /\ snakeInputs < MaxSnakeInputs
    /\ snakeInputs' = snakeInputs + 1
    /\ tickLog' = NoTickLog
    /\ UNCHANGED <<snake, food, gameStarted, snakeGameOver, snakeScore,
                   deathReason, collisionPoint, obstacles, powerUps,
                   activePowerUps, ticksDone, tetrisVars, appVars, probe>>

\* an arrow key that is accepted whatever the direction is
ArrowUnguarded(blockedAxis, blockedValue, newDirection) ==
    IF ~gameStarted \/ snakeGameOver
    THEN UNCHANGED direction
    ELSE direction' = newDirection

\* an arrow key that is still accepted after the end of the game
ArrowAfterEnd(blockedAxis, blockedValue, newDirection) ==
    IF ~gameStarted
    THEN UNCHANGED direction
    ELSE IF direction[blockedAxis] # blockedValue
         THEN direction' = newDirection
         ELSE UNCHANGED direction

\* handleKeyPress for an arrow: ignored before the start and after the end,
\* and when the direction has blockedValue on blockedAxis
Arrow(blockedAxis, blockedValue, newDirection) ==
    IF ~gameStarted \/ snakeGameOver
    THEN UNCHANGED direction
    ELSE IF direction[blockedAxis] # blockedValue
         THEN direction' = newDirection
         ELSE UNCHANGED direction

SnakeKeyArrowUp ==
    /\ SnakeKeyFrame
    /\ snakeEvent' = "ArrowUp"
    /\ Arrow("y", 1, Cell(0, 0 - 1))
    /\ UNCHANGED paused
    /\ gameLoopEffect

SnakeKeyArrowDown ==
    /\ SnakeKeyFrame
    /\ snakeEvent' = "ArrowDown"
    /\ Arrow("y", 0 - 1, Cell(0, 1))
    /\ UNCHANGED paused
    /\ gameLoopEffect

SnakeKeyArrowLeft ==
    /\ SnakeKeyFrame
    /\ snakeEvent' = "ArrowLeft"
    /\ Arrow("x", 1, Cell(0 - 1, 0))
    /\ UNCHANGED paused
    /\ gameLoopEffect

SnakeKeyArrowRight ==
    /\ SnakeKeyFrame
    /\ snakeEvent' = "ArrowRight"
    /\ Arrow("x", 0 - 1, Cell(1, 0))
    /\ UNCHANGED paused
    /\ gameLoopEffect

\* handleKeyPress for ' '
SnakeKeySpace ==
    /\ SnakeKeyFrame
    /\ snakeEvent' = "Space"
    /\ paused' = IF ~gameStarted \/ snakeGameOver THEN paused ELSE ~paused
    /\ UNCHANGED direction
    /\ gameLoopEffect

\* a pause button that works before the start and after the end
togglePauseAnyTime ==
    /\ SnakeKeyFrame
    /\ snakeEvent' = "togglePause"
    /\ paused' = ~paused
    /\ UNCHANGED direction
    /\ gameLoopEffect

\* the pause button, disabled before the start and after the end
togglePause ==
    /\ gameStarted /\ ~snakeGameOver
    /\ SnakeKeyFrame
    /\ snakeEvent' = "togglePause"
    /\ paused' = ~paused
    /\ UNCHANGED direction
    /\ gameLoopEffect

\* a start that leaves the active effects and the pause of the last game
startGameKeepEffects ==
    /\ SnakeExploring
    /\ snakeInputs < MaxSnakeInputs
    /\ snakeInputs' = snakeInputs + 1
    /\ snakeEvent' = "startGame"
    /\ snake' = <<Cell(10, 10)>>
    /\ food' = Cell(5, 5)
    /\ direction' = Cell(1, 0)
    /\ gameStarted' = TRUE
    /\ snakeGameOver' = FALSE
    /\ snakeScore' = 0
    /\ deathReason' = "null"
    /\ collisionPoint' = <<>>
    /\ obstacles' = <<>>
    /\ powerUps' = <<>>
    /\ ticksDone' = 0
    /\ tickLog' = NoTickLog
    /\ UNCHANGED <<paused, activePowerUps, tetrisVars, appVars, probe>>
    /\ gameLoopEffect

\* the start button
startGame ==
    /\ SnakeExploring
    /\ snakeInputs < MaxSnakeInputs
    /\ snakeInputs' = snakeInputs + 1
    /\ snakeEvent' = "startGame"
    /\ snake' = <<Cell(10, 10)>>
    /\ food' = Cell(5, 5)
    /\ direction' = Cell(1, 0)
    /\ gameStarted' = TRUE
    /\ snakeGameOver' = FALSE
    /\ paused' = FALSE
    /\ snakeScore' = 0
    /\ deathReason' = "null"
    /\ collisionPoint' = <<>>
    /\ obstacles' = <<>>
    /\ powerUps' = <<>>
    /\ activePowerUps' = <<>>
    /\ ticksDone' = 0
    /\ tickLog' = NoTickLog
    /\ UNCHANGED <<tetrisVars, appVars, probe>>
    /\ gameLoopEffect

(***************************************************************************)
(* Snake: the states a run starts from.  Besides the mounted component,    *)
(* these are positions of a running game: the snake is a path the head has *)
(* walked, the score is 10 per segment gained, and every token is on a     *)
(* cell that was free and far enough from the snake when it appeared.  In  *)
(* a development build every food counted twice and every pickup left two  *)
(* entries, so the score and the effects of a position are doubled there.  *)
(***************************************************************************)
Obstacle(cx, cy, a) == [x |-> cx, y |-> cy, age |-> a]
PowerUp(cx, cy, t, a) == [x |-> cx, y |-> cy, type |-> t, age |-> a]
Effect(t, left) == [type |-> t, timeLeft |-> left]

Running(s, f, d, sc, obs, pus, act) ==
    [snake |-> s, food |-> f, direction |-> d, gameStarted |-> TRUE,
     score |-> sc, obstacles |-> obs, powerUps |-> pus, activePowerUps |-> act]

SnakeScenarios ==
    { \* the mounted component, before the first start
      [snake |-> <<Cell(10, 10)>>, food |-> Cell(5, 5), direction |-> Cell(0, 0),
       gameStarted |-> FALSE, score |-> 0, obstacles |-> <<>>,
       powerUps |-> <<>>, activePowerUps |-> <<>>],
      \* one step before the first food
      Running(<<Cell(4, 5)>>, Cell(5, 5), Cell(1, 0), 0, <<>>, <<>>, <<>>),
      \* a square of four, the head turning onto the tail
      Running(<<Cell(3, 3), Cell(4, 3), Cell(4, 4), Cell(3, 4)>>, Cell(12, 12),
              Cell(0, 1), 30, <<>>, <<>>, <<>>),
      \* the same square under invincibility
      Running(<<Cell(3, 3), Cell(4, 3), Cell(4, 4), Cell(3, 4)>>, Cell(12, 12),
              Cell(0, 1), 30, <<>>, <<>>, <<Effect("INVINCIBILITY", 40)>>),
      \* heading into the left wall with two speed effects
      Running(<<Cell(0, 7), Cell(1, 7)>>, Cell(15, 15), Cell(0 - 1, 0), 10,
              <<>>, <<>>, <<Effect("SPEED_UP", 60), Effect("SPEED_UP", 30)>>),
      \* heading into the left wall under invincibility, an obstacle on the
      \* cell the head wraps to and the food behind it
      Running(<<Cell(0, 7), Cell(1, 7)>>, Cell(18, 7), Cell(0 - 1, 0), 10,
              <<Obstacle(19, 7, 10)>>, <<>>, <<Effect("INVINCIBILITY", 2)>>),
      \* invincible in the top right corner, the food in the top left one
      Running(<<Cell(19, 0), Cell(18, 0)>>, Cell(0, 0), Cell(1, 0), 10,
              <<>>, <<>>, <<Effect("INVINCIBILITY", 50)>>),
      \* invincible and heading into the bottom wall
      Running(<<Cell(0, 19), Cell(0, 18)>>, Cell(12, 12), Cell(0, 1), 10,
              <<>>, <<>>, <<Effect("INVINCIBILITY", 50)>>),
      \* in the top right corner, heading into the right wall
      Running(<<Cell(19, 0), Cell(18, 0)>>, Cell(12, 12), Cell(1, 0), 10,
              <<>>, <<>>, <<>>),
      \* heading into the bottom wall
      Running(<<Cell(7, 19), Cell(7, 18)>>, Cell(12, 12), Cell(0, 1), 10,
              <<>>, <<>>, <<>>),
      \* the square of four after its invincibility ended, the tail still on
      \* an obstacle it passed over
      Running(<<Cell(3, 3), Cell(4, 3), Cell(4, 4), Cell(3, 4)>>, Cell(12, 12),
              Cell(0, 1), 30, <<Obstacle(3, 4, 40)>>, <<>>, <<>>),
      \* coiled around the head at distance 2: every cell at distance 3 of
      \* the head is next to the body
      Running(<<Cell(10, 10), Cell(9, 10), Cell(8, 10), Cell(8, 9), Cell(8, 8),
                Cell(9, 8), Cell(10, 8), Cell(11, 8), Cell(12, 8), Cell(12, 9),
                Cell(12, 10), Cell(12, 11), Cell(12, 12), Cell(11, 12),
                Cell(10, 12), Cell(9, 12), Cell(8, 12), Cell(8, 11)>>,
              Cell(2, 2), Cell(1, 0), 170, <<>>, <<>>, <<>>),
      \* an obstacle on the next cell
      Running(<<Cell(10, 10), Cell(9, 10)>>, Cell(2, 2), Cell(1, 0), 10,
              <<Obstacle(11, 10, 30)>>, <<>>, <<>>),
      \* a score boost on the next cell and the food behind it
      Running(<<Cell(10, 10), Cell(9, 10)>>, Cell(12, 10), Cell(1, 0), 10,
              <<>>, <<PowerUp(11, 10, "SCORE_BOOST", 20)>>, <<>>),
      \* both populations at their caps with the oldest token about to go,
      \* effects about to end, and on the next cell the food and a power-up
      \* that appeared together in the tick that ate the first food
      Running(<<Cell(10, 10), Cell(9, 10)>>, Cell(11, 10), Cell(1, 0), 10,
              <<Obstacle(2, 2, 79), Obstacle(2, 4, 60), Obstacle(2, 6, 50),
                Obstacle(2, 8, 40), Obstacle(2, 10, 30), Obstacle(2, 12, 20)>>,
              <<PowerUp(17, 3, "SLOW_DOWN", 49), PowerUp(11, 10, "INVINCIBILITY", 10)>>,
              <<Effect("SLOW_DOWN", 1), Effect("SPEED_UP", 2),
                Effect("SCORE_BOOST", 50)>>) }

\* the food or a power-up lies on one of the next two cells of the head: the
\* positions that are also run in a development build
TokenAhead(s) ==
    \E k \in 1..2 :
        LET c == Cell(s.snake[1].x + k * s.direction.x,
                      s.snake[1].y + k * s.direction.y)
        IN  s.gameStarted /\ (c = s.food \/ SomeAt(s.powerUps, c))

TetrisMounted ==
    /\ board = createEmptyBoard
    /\ currentPiece = getRandomPiece("I")
    /\ tetrisScore = 0
    /\ tetrisGameOver = FALSE
    /\ isPaused = FALSE
    /\ tetrisEvent = "mount"
    /\ locks = 0
    /\ inputs = 0
    /\ linesCleared = 0

SnakeInit ==
    /\ \E s \in SnakeScenarios :
          /\ strictDev \in (IF TokenAhead(s) THEN BOOLEAN ELSE {FALSE})
          /\ snake = s.snake
          /\ food = s.food
          /\ direction = s.direction
          /\ gameStarted = s.gameStarted
          /\ snakeScore = UpdaterRuns * s.score
          /\ obstacles = s.obstacles
          /\ powerUps = s.powerUps
          /\ activePowerUps = [k \in 1..(UpdaterRuns * Len(s.activePowerUps)) |->
                                 s.activePowerUps[(k + UpdaterRuns - 1) \div UpdaterRuns]]
    /\ gameInterval = <<getCurrentGameSpeed(activePowerUps)>>
    /\ snakeGameOver = FALSE
    /\ paused = FALSE
    /\ deathReason = "null"
    /\ collisionPoint = <<>>
    /\ snakeEvent = "mount"
    /\ tickLog = NoTickLog
    /\ ticksDone = 0
    /\ snakeInputs = 0
    /\ TetrisMounted
    /\ probe = NoProbe
    /\ activeTab = "snake"

SnakeNext ==
    \/ SnakeTick
    \/ SnakeKeyArrowUp
    \/ SnakeKeyArrowDown
    \/ SnakeKeyArrowLeft
    \/ SnakeKeyArrowRight
    \/ SnakeKeySpace
    \/ togglePause
    \/ startGame

SnakeSpec == SnakeInit /\ [][SnakeNext]_vars

(***************************************************************************)
(* The application: App shows one tab at a time, so one of the two games   *)
(* is mounted and takes the events.  The runs start from positions of      *)
(* either game in which points are about to be made or the game is about   *)
(* to end.                                                                 *)
(***************************************************************************)
AppTetrisPositions ==
    {DropAll(createEmptyBoard, ds) :
        ds \in {TopOutDrops, FourLinesDrops, ClearedTopOutDrops}}

FoodAhead ==
    \E k \in 1..2 :
        food = Cell(snake[1].x + k * direction.x, snake[1].y + k * direction.y)

\* the next tick ends the game
EndAhead == gameStarted /\ StepOutcome.death # "null"

AppInit ==
    \/ TetrisInit /\ board \in AppTetrisPositions
    \/ SnakeInit /\ (FoodAhead \/ EndAhead)

AppNext ==
    \/ activeTab = "tetris" /\ TetrisTick
    \/ activeTab = "tetris" /\ KeyArrowLeft
    \/ activeTab = "tetris" /\ KeyArrowRight
    \/ activeTab = "tetris" /\ KeyArrowDown
    \/ activeTab = "tetris" /\ KeyArrowUp
    \/ activeTab = "tetris" /\ KeySpace
    \/ activeTab = "tetris" /\ KeyP
    \/ activeTab = "tetris" /\ PauseButton
    \/ activeTab = "tetris" /\ restartGame
    \/ activeTab = "snake" /\ SnakeTick
    \/ activeTab = "snake" /\ SnakeKeyArrowUp
    \/ activeTab = "snake" /\ SnakeKeyArrowDown
    \/ activeTab = "snake" /\ SnakeKeyArrowLeft
    \/ activeTab = "snake" /\ SnakeKeyArrowRight
    \/ activeTab = "snake" /\ SnakeKeySpace
    \/ activeTab = "snake" /\ togglePause
    \/ activeTab = "snake" /\ startGame

AppSpec == AppInit /\ [][AppNext]_vars

(***************************************************************************)
(* Probes of the pure functions: the function is applied to inputs drawn   *)
(* from bounded sets and the result is kept in probe.                      *)
(***************************************************************************)
\* origins tried reach this many cells beyond each edge of the board
ProbeMargin == 3
\* rotations applied to one shape
MaxRotations == 4
\* active effects in a probed effect list
MaxEffects == 3

ProbeBoards ==
    {DropAll(createEmptyBoard, ds) :
        ds \in {<<>>, TopOutDrops, OneLineDrops, TwoLinesDrops, SplitLinesDrops}}

PureInit ==
    /\ board \in ProbeBoards
    /\ currentPiece = getRandomPiece("I")
    /\ tetrisScore = 0
    /\ tetrisGameOver = FALSE
    /\ isPaused = FALSE
    /\ tetrisEvent = "mount"
    /\ locks = 0
    /\ inputs = 0
    /\ linesCleared = 0
    /\ probe = NoProbe
    /\ SnakeMounted
    /\ activeTab = "tetris"
    /\ strictDev = FALSE

\* isValidMove applied to a shape and an origin on the board
ProbeIsValidMove ==
    /\ probe = NoProbe
    /\ \E t \in PieceTypes, n \in 0..3,
          x \in (0 - ProbeMargin)..(BOARD_WIDTH - 1 + ProbeMargin),
          y \in (0 - ProbeMargin)..(BOARD_HEIGHT - 1 + ProbeMargin) :
          LET shape == Rotations(TETROMINOES[t].shape, n)
          IN  probe' = [fn |-> "isValidMove", shape |-> shape, x |-> x, y |-> y,
                        result |-> isValidMove(board, x, y, shape)]
    /\ UNCHANGED <<tetrisVars, snakeVars, appVars>>

\* a tetromino in its spawn orientation
ProbeShape ==
    /\ probe = NoProbe
    /\ \E t \in PieceTypes :
          probe' = [fn |-> "rotatePiece", type |-> t, n |-> 0,
                    shape |-> TETROMINOES[t].shape]
    /\ UNCHANGED <<tetrisVars, snakeVars, appVars>>

\* rotatePiece applied once more to the probed shape
ProbeRotate ==
    /\ probe.fn = "rotatePiece"
    /\ probe.n < MaxRotations
    /\ probe' = [probe EXCEPT !.n = @ + 1, !.shape = rotatePiece(@)]
    /\ UNCHANGED <<tetrisVars, snakeVars, appVars>>

\* the effect lists of up to n entries, at timeLeft 50
RECURSIVE EffectLists(_)
EffectLists(n) ==
    IF n = 0 THEN {<<>>}
    ELSE LET shorter == EffectLists(n - 1)
         IN  shorter \cup {Append(l, [type |-> t, timeLeft |-> 50]) :
                               l \in shorter, t \in PowerUpTypeNames}

\* getCurrentGameSpeed applied to an effect list
ProbeGameSpeed ==
    /\ probe = NoProbe
    /\ \E effects \in EffectLists(MaxEffects) :
          probe' = [fn |-> "getCurrentGameSpeed", effects |-> effects,
                    speed |-> getCurrentGameSpeed(effects)]
    /\ UNCHANGED <<tetrisVars, snakeVars, appVars>>

PureNext ==
    \/ ProbeIsValidMove
    \/ ProbeShape
    \/ ProbeRotate
    \/ ProbeGameSpeed

PureSpec == PureInit /\ [][PureNext]_vars

(***************************************************************************)
(* Tetris: the claims.                                                     *)
(***************************************************************************)
\* the board cells a piece's filled cells map to
PieceCells(p) ==
    {c \in ((p.x)..(p.x + 3)) \X ((p.y)..(p.y + 3)) : PieceCovers(p, c[1], c[2])}

\* C1: while the game is not over, every filled cell of the active piece lies
\* at 0 <= x < 15 and y < 15 and, when y >= 0, on an empty cell of the board.
C1_ActivePieceOnFreeCells ==
    ~tetrisGameOver =>
        \A c \in PieceCells(currentPiece) :
            /\ 0 <= c[1] /\ c[1] < BOARD_WIDTH /\ c[2] < BOARD_HEIGHT
            /\ c[2] >= 0 => board[c[2] + 1][c[1] + 1] = EmptyCell

\* C2: in a step that locks a piece, a replacement piece that overlaps an
\* occupied cell of the board as it stands after the lock and its line clear
\* ends the game and never becomes the active piece: when the game goes on,
\* the new active piece lies on empty cells of the new board.
C2_SpawnCheckedAgainstNewBoard ==
    [][(locks' = locks + 1 /\ ~tetrisGameOver') =>
          \A c \in PieceCells(currentPiece') :
              c[2] >= 0 => board'[c[2] + 1][c[1] + 1] = EmptyCell]_vars

\* the board cells the probed shape's filled cells map to
ProbeCells ==
    {<<probe.x + x - 1, probe.y + y - 1>> :
        <<x, y>> \in {c \in (1..4) \X (1..4) :
                        /\ c[2] <= Len(probe.shape)
                        /\ c[1] <= Len(probe.shape[c[2]])
                        /\ probe.shape[c[2]][c[1]] # 0}}

\* C3: isValidMove returns false whenever some filled cell maps to boardX < 0,
\* boardX >= 15, boardY >= 15 or to an occupied cell with boardY >= 0, and true
\* whenever every filled cell maps inside the side and bottom bounds and, if
\* its boardY >= 0, onto an empty cell; cells with boardY < 0 fail no check.
C3_IsValidMoveContract ==
    probe.fn = "isValidMove" =>
        LET Outside(c)  == c[1] < 0 \/ c[1] >= BOARD_WIDTH \/ c[2] >= BOARD_HEIGHT
            Occupied(c) == /\ c[2] >= 0
                           /\ ~Outside(c)
                           /\ board[c[2] + 1][c[1] + 1] # EmptyCell
        IN  /\ (\E c \in ProbeCells : Outside(c) \/ Occupied(c)) => ~probe.result
            /\ (\A c \in ProbeCells : ~Outside(c) /\ ~Occupied(c)) => probe.result

\* C3 witness: a placement with a filled cell above the top row was accepted,
\* and one over an occupied cell was rejected (on another probe)
C3_Witness ==
    /\ probe.fn = "isValidMove"
    /\ probe.result
    /\ \E c \in ProbeCells : c[2] < 0
    /\ \E c \in ProbeCells : c[2] >= 0

\* the shape turned 90 degrees clockwise: transposed, then each row reversed
Transposed(shape) ==
    [i \in 1..Len(shape[1]) |-> [j \in 1..Len(shape) |-> shape[j][i]]]
EachRowReversed(shape) ==
    [i \in 1..Len(shape) |->
        [j \in 1..Len(shape[i]) |-> shape[i][Len(shape[i]) + 1 - j]]]

\* C4: for each of the 7 tetrominoes, one rotatePiece is the 90-degree
\* clockwise rotation (transpose, then reverse each row) and four of them give
\* back the original shape.
C4_RotateRoundTrip ==
    probe.fn = "rotatePiece" =>
        /\ probe.n = 1 =>
              probe.shape = EachRowReversed(Transposed(TETROMINOES[probe.type].shape))
        /\ probe.n = 4 => probe.shape = TETROMINOES[probe.type].shape

\* C4 witness: an asymmetric tetromino after its fourth rotation
C4_Witness ==
    /\ probe.fn = "rotatePiece"
    /\ probe.n = 4
    /\ probe.type = "L"

\* every row of the board holding a cell that is empty
RowIncomplete(row) == \E x \in 1..Len(row) : row[x] = EmptyCell

\* C5: in a step that locks a piece exactly the rows of the board with the
\* piece in which every cell is non-empty are removed, the other rows keep
\* their order and as many all-empty rows are put on top; the board is 15 rows
\* of 15 cells in every state.
C5_LineClear ==
    /\ [](Len(board) = 15 /\ \A r \in 1..Len(board) : Len(board[r]) = 15)
    /\ [][locks' = locks + 1 =>
            LET withPiece == LockPiece(board, currentPiece)
                kept      == SelectSeq(withPiece, RowIncomplete)
                k         == 15 - Len(kept)
            IN  /\ \A r \in 1..k : \A x \in 1..15 : board'[r][x] = EmptyCell
                /\ \A r \in 1..Len(kept) : board'[k + r] = kept[r]]_vars

\* C5 witness: two rows were cleared by one placement and a locked cell that
\* lay above them has come down
C5_Witness ==
    /\ locks = 1
    /\ linesCleared = 2
    /\ \E x \in 1..15 : board[15][x] # EmptyCell

\* C6: a placement that completes k rows raises the score by exactly 100*k
\* (0 when no row is complete), so the score is always 100 times the number of
\* rows cleared since the last restart.
C6_FlatLineScore ==
    /\ [](tetrisScore = 100 * linesCleared)
    /\ [][locks' = locks + 1 =>
            LET withPiece == LockPiece(board, currentPiece)
                k == Cardinality({r \in 1..15 : ~RowIncomplete(withPiece[r])})
            IN  tetrisScore' = tetrisScore + 100 * k]_vars

\* C6 witness: one placement completed four rows
C6_Witness ==
    /\ locks = 1
    /\ linesCleared = 4
    /\ tetrisScore = 400

\* C7: when a piece locks and no row is complete, the new board is the old
\* board plus the cells of the locked piece, no row removed, shifted or added.
C7_NoFullRowNoChange ==
    [][(/\ locks' = locks + 1
        /\ \A r \in 1..15 : \E x \in 1..15 :
              board[r][x] = EmptyCell /\ ~PieceCovers(currentPiece, x - 1, r - 1))
       => \A r \in 1..15 : \A x \in 1..15 :
              board'[r][x] = IF PieceCovers(currentPiece, x - 1, r - 1)
                             THEN currentPiece.color
                             ELSE board[r][x]]_vars

\* C7 witness: a piece has locked on a board with locked cells and no row was
\* cleared
C7_Witness ==
    /\ locks = 1
    /\ linesCleared = 0
    /\ Cardinality({c \in (1..15) \X (1..15) : board[c[2]][c[1]] # EmptyCell}) > 4

\* C8: a left, right or rotate key event whose placement fails isValidMove
\* leaves the active piece, the board, the score, gameOver and isPaused as
\* they were.
C8_RejectedMoveChangesNothing ==
    [][LET target ==
             IF tetrisEvent' = "ArrowLeft"
             THEN [currentPiece EXCEPT !.x = @ - 1]
             ELSE IF tetrisEvent' = "ArrowRight"
                  THEN [currentPiece EXCEPT !.x = @ + 1]
                  ELSE [currentPiece EXCEPT !.shape = rotatePiece(@)]
       IN  (/\ inputs' = inputs + 1
            /\ tetrisEvent' \in {"ArrowLeft", "ArrowRight", "Space"}
            /\ ~isValidMove(board, target.x, target.y, target.shape))
           => UNCHANGED <<currentPiece, board, tetrisScore, tetrisGameOver,
                          isPaused>>]_vars

\* C8 witness: the first key event of a run was a rotation of the upright I
\* piece standing against the left wall, which does not fit
C8_Witness ==
    /\ tetrisEvent = "Space"
    /\ inputs = 1
    /\ currentPiece.type = "I"
    /\ currentPiece.x = -2
    /\ ~isValidMove(board, currentPiece.x, currentPiece.y,
                    rotatePiece(currentPiece.shape))

(***************************************************************************)
(* Snake claims.                                                           *)
(***************************************************************************)
\* the tick is not skipped: the game runs, is not paused and has a direction
TickMoves ==
    /\ gameStarted /\ ~snakeGameOver /\ ~paused
    /\ ~(direction.x = 0 /\ direction.y = 0)

\* C9: a tick that is not skipped and does not end the game leaves the snake
\* one segment longer when the new head is on the food cell and as long as it
\* was otherwise; the snake never gets shorter except through startGame.
C9_SnakeLength ==
    [][ /\ (snakeEvent' = "tick" /\ TickMoves /\ ~snakeGameOver')
           => Len(snake') = Len(snake) + (IF snake'[1] = food THEN 1 ELSE 0)
        /\ Len(snake') < Len(snake) => snakeEvent' = "startGame" ]_vars

\* a tick has just grown the snake, and the run had a tick without food too
C9_Witness ==
    /\ snakeEvent = "tick"
    /\ tickLog.ate /\ ~tickLog.skipped
    /\ ~snakeGameOver
    /\ ticksDone = 2
    /\ Len(snake) = 3
    /\ snakeScore = 20

\* the direction a key asks for
Requested(key) ==
    CASE key = "ArrowUp" -> Cell(0, 0 - 1)
      [] key = "ArrowDown" -> Cell(0, 1)
      [] key = "ArrowLeft" -> Cell(0 - 1, 0)
      [] key = "ArrowRight" -> Cell(1, 0)

Reverse(d) == Cell(0 - d.x, 0 - d.y)

\* C10: in a started game that is not over, an arrow key asking for the exact
\* reverse of the current direction leaves the direction as it is, whichever
\* of the four directions the snake has.
C10_ReverseKeyIgnored ==
    [][ \A key \in {"ArrowUp", "ArrowDown", "ArrowLeft", "ArrowRight"} :
           (/\ snakeEvent' = key
            /\ gameStarted /\ ~snakeGameOver
            /\ Requested(key) = Reverse(direction))
           => direction' = direction ]_vars

\* ArrowDown has just been refused while the snake goes up
C10_Witness ==
    /\ snakeEvent = "ArrowDown"
    /\ gameStarted /\ ~snakeGameOver
    /\ direction = Cell(0, 0 - 1)
    /\ snakeInputs = 2

\* C11: for a snake of two or more segments, whatever arrow keys arrive
\* between two ticks, the tick never moves the head onto the neck (the second
\* segment).
C11_NeverIntoNeck ==
    [][ (snakeEvent' = "tick" /\ TickMoves /\ Len(snake) >= 2)
        => MovedHead # snake[2] ]_vars

\* C12: under an active invincibility effect, a tick whose new head leaves the
\* board puts the head on the opposite edge of the same axis (x = 19 after a
\* left exit, x = 0 after a right exit, y = 19 after a top exit, y = 0 after a
\* bottom exit), keeps the other coordinate, and does not end the game.
C12_InvincibleWrap ==
    [][ (snakeEvent' = "tick" /\ TickMoves /\ isInvincible /\ OffBoard(MovedHead))
        => /\ ~snakeGameOver'
           /\ snake'[1] = (IF MovedHead.x < 0 THEN Cell(19, snake[1].y)
                           ELSE IF MovedHead.x > 19 THEN Cell(0, snake[1].y)
                           ELSE IF MovedHead.y < 0 THEN Cell(snake[1].x, 19)
                           ELSE Cell(snake[1].x, 0)) ]_vars

\* the head has just left through the top wall and come back at the bottom
C12_Witness ==
    /\ snakeEvent = "tick"
    /\ ~snakeGameOver
    /\ Len(snake) = 2
    /\ snake[1] = Cell(19, 19)
    /\ snake[2] = Cell(19, 0)

\* C13: the food is never on a cell of the snake; the food generated in a tick
\* that eats avoids the snake as it is after the move, new head included.
C13_FoodOffSnake == ~SomeAt(snake, food)

\* C14: an obstacle added by a tick lies at Chebyshev distance greater than 2
\* from the head of the snake as it stands at the end of that tick.
C14_ObstacleSpawnDistance ==
    [][ (snakeEvent' = "tick" /\ tickLog'.obstacle = "yes")
        => LET o == obstacles'[Len(obstacles')]
           IN  Abs(o.x - snake'[1].x) > 2 \/ Abs(o.y - snake'[1].y) > 2 ]_vars

\* a score-multiplier effect is active
ScoreBoostActive ==
    \E i \in 1..Len(activePowerUps) : activePowerUps[i].type = "SCORE_BOOST"

\* C15: a tick whose new head is on the food cell raises the score by exactly
\* 10 without an active score multiplier and by exactly 20 with one or more;
\* a tick that eats no food leaves the score as it is.
C15_FoodScore ==
    [][ (snakeEvent' = "tick" /\ TickMoves /\ ~snakeGameOver')
        => snakeScore' = snakeScore
                         + (IF snake'[1] # food THEN 0
                            ELSE IF ScoreBoostActive THEN 20 ELSE 10) ]_vars

(***************************************************************************)
(* Claims about both games.                                                *)
(***************************************************************************)
\* C16: in both games no tick, key event or pause toggle lowers the score; the
\* score gets lower only by returning to 0 through the explicit restart
\* (startGame in Snake, restartGame in Tetris).
C16_ScoreMonotone ==
    [][ /\ tetrisScore' < tetrisScore
           => (tetrisEvent' = "restartButton" /\ tetrisScore' = 0)
        /\ snakeScore' < snakeScore
           => (snakeEvent' = "startGame" /\ snakeScore' = 0) ]_vars

\* C16 witness: a Tetris game has ended with the points of its cleared row
C16_Witness ==
    /\ activeTab = "tetris"
    /\ tetrisGameOver
    /\ locks = 1
    /\ tetrisScore = 100

(***************************************************************************)
(* Tetris claims, continued.                                               *)
(***************************************************************************)
\* C17: on an empty board an I-piece spawned at x = 5, y = 0 that falls until
\* it locks leaves the score and the rows cleared as they were (0), and its
\* four cells stay on the board in the colour of the I-piece.
C17_IPieceOnEmptyBoard ==
    [][ (/\ locks' = locks + 1
         /\ board = createEmptyBoard
         /\ currentPiece.type = "I"
         /\ currentPiece.shape = TETROMINOES["I"].shape
         /\ currentPiece.x = 5)
        => /\ tetrisScore' = tetrisScore
           /\ linesCleared' = linesCleared
           /\ \A r \in 1..15, c \in 1..15 :
                 board'[r][c] = IF r = 15 /\ c \in 6..9
                                THEN TETROMINOES["I"].color ELSE EmptyCell ]_vars

\* gravity alone has just locked the I-piece on the bottom row
C17_Witness ==
    /\ tetrisEvent = "tick"
    /\ inputs = 0
    /\ locks = 1
    /\ tetrisScore = 0
    /\ linesCleared = 0
    /\ \A c \in 6..9 : board[15][c] = TETROMINOES["I"].color
    /\ \A c \in 1..15 : board[14][c] = EmptyCell

\* C18: the P key toggles the pause: p or P pauses a running game and resumes
\* a paused game that is not over.
C18_PKeyToggles ==
    [][ (tetrisEvent' = "p" /\ ~tetrisGameOver)
        => isPaused' = ~isPaused ]_vars

\* C19: the Up arrow key rotates the piece in play by 90 degrees clockwise
\* when the rotated shape fits at the piece's position.
C19_ArrowUpRotates ==
    [][ (/\ tetrisEvent' = "ArrowUp"
         /\ ~tetrisGameOver /\ ~isPaused
         /\ isValidMove(board, currentPiece.x, currentPiece.y,
                        rotatePiece(currentPiece.shape)))
        => currentPiece' = [currentPiece EXCEPT !.shape = rotatePiece(@)] ]_vars

(***************************************************************************)
(* Snake claims, continued.                                                *)
(***************************************************************************)
\* C20: a tick whose new head is on the cell of a power-up token removes the
\* token from the board and ends with a new entry of the token's type and the
\* full duration (100) in the active effects, whether or not the same tick
\* eats the food.
C20_PowerUpPickup ==
    [][ (/\ snakeEvent' = "tick" /\ TickMoves /\ ~snakeGameOver'
         /\ SomeAt(powerUps, snake'[1]))
        => /\ ~SomeAt(powerUps', snake'[1])
           /\ Len(activePowerUps') >= 1
           /\ \E i \in 1..Len(powerUps) :
                 /\ powerUps[i].x = snake'[1].x /\ powerUps[i].y = snake'[1].y
                 /\ activePowerUps'[Len(activePowerUps')]
                       = [type |-> powerUps[i].type, timeLeft |-> 100] ]_vars

\* a tick has just eaten the food and picked up the power-up on the same cell
C20_Witness ==
    /\ snakeEvent = "tick"
    /\ tickLog.ate
    /\ tickLog.collected = "INVINCIBILITY"
    /\ ~SomeAt(powerUps, snake[1])
    /\ activePowerUps[Len(activePowerUps)] = [type |-> "INVINCIBILITY", timeLeft |-> 100]

(***************************************************************************)
(* C21: GameOver is terminal in both games.  Once gameOver is true, a      *)
(* timer tick, a key or a pause toggle changes none of the game state      *)
(* (Snake: snake, direction, food, score, obstacles, power-ups, active     *)
(* effects, paused, death reason; Tetris: board, active piece, score,      *)
(* isPaused) and gameOver stays true; only the start button of Snake and   *)
(* the restart button of Tetris leave it.                                  *)
(***************************************************************************)
C21_GameOverTerminal ==
    [][ /\ (snakeGameOver /\ snakeEvent' # "startGame")
              => UNCHANGED <<snake, direction, food, snakeScore, obstacles,
                             powerUps, activePowerUps, paused, deathReason,
                             collisionPoint, snakeGameOver>>
        /\ (tetrisGameOver /\ tetrisEvent' # "restartButton")
              => UNCHANGED <<board, currentPiece, tetrisScore, isPaused,
                             tetrisGameOver>> ]_vars

\* an arrow key was pressed after the snake died, against no reverse guard
C21_Witness ==
    /\ activeTab = "snake"
    /\ snakeGameOver
    /\ snakeEvent = "ArrowUp"
    /\ direction.y # 1
    /\ deathReason # "null"

(***************************************************************************)
(* C22: Tetris pause.  While isPaused is true, a timer tick and the keys   *)
(* ArrowLeft, ArrowRight, ArrowDown and Space (rotate) leave the board,    *)
(* the active piece and the score unchanged; the step that resumes changes *)
(* isPaused only, so the game goes on from the state it was paused in.     *)
(***************************************************************************)
C22_PauseFreezes ==
    [][ /\ (isPaused /\ tetrisEvent' \in {"tick", "ArrowLeft", "ArrowRight",
                                          "ArrowDown", "Space"})
              => UNCHANGED <<board, currentPiece, tetrisScore, tetrisGameOver,
                             isPaused>>
        /\ (isPaused /\ ~isPaused')
              => UNCHANGED <<board, currentPiece, tetrisScore, tetrisGameOver>>
      ]_vars

\* ArrowDown was pressed while the game was paused
C22_Witness ==
    /\ isPaused
    /\ tetrisEvent = "ArrowDown"
    /\ ~tetrisGameOver

(***************************************************************************)
(* C23: a Snake tick that fires while the game is not started, is paused,  *)
(* is over, or has direction (0,0) is skipped entirely: snake, food,       *)
(* score, obstacles and their ages, power-up tokens and their ages and     *)
(* every active effect's timeLeft are unchanged.                           *)
(***************************************************************************)
C23_SkippedTick ==
    [][ (/\ snakeEvent' = "tick"
         /\ \/ ~gameStarted
            \/ paused
            \/ snakeGameOver
            \/ (direction.x = 0 /\ direction.y = 0))
        => UNCHANGED <<snake, food, snakeScore, obstacles, powerUps,
                       activePowerUps, direction, gameStarted, paused,
                       snakeGameOver, deathReason, collisionPoint>> ]_vars

\* a tick fired in a paused game that has tokens on the board and effects
\* running
C23_Witness ==
    /\ snakeEvent = "tick"
    /\ tickLog.skipped
    /\ paused
    /\ obstacles # <<>>
    /\ powerUps # <<>>
    /\ activePowerUps # <<>>

(***************************************************************************)
(* C24: the Tetris gravity step.  In a game that is neither paused nor     *)
(* over, a timer tick moves the active piece to (x, y+1) and changes       *)
(* nothing else when that placement is valid; otherwise it locks the       *)
(* piece: every filled cell of the piece with boardY >= 0 becomes a board  *)
(* cell of the piece's colour, no other cell changes, and the board of the *)
(* next state is that board after line clearing.  The ArrowDown key does   *)
(* the same step.                                                          *)
(***************************************************************************)
C24_GravityStep ==
    [][ (/\ tetrisEvent' \in {"tick", "ArrowDown"}
         /\ ~isPaused
         /\ ~tetrisGameOver)
        => IF isValidMove(board, currentPiece.x, currentPiece.y + 1,
                          currentPiece.shape)
           THEN /\ currentPiece' = [currentPiece EXCEPT !.y = @ + 1]
                /\ UNCHANGED <<board, tetrisScore, tetrisGameOver, isPaused>>
           ELSE LET locked ==
                      [r \in 1..15 |-> [c \in 1..15 |->
                          IF PieceCovers(currentPiece, c - 1, r - 1)
                          THEN currentPiece.color
                          ELSE board[r][c]]]
                IN  /\ locks' = locks + 1
                    /\ board' = ClearLines(locked)
                    /\ UNCHANGED isPaused ]_vars

\* the ArrowDown key locked a piece and the lock completed two rows
C24_Witness ==
    /\ tetrisEvent = "ArrowDown"
    /\ locks = 1
    /\ linesCleared = 2
    /\ ~tetrisGameOver

(***************************************************************************)
(* C25: Tetris gameOver becomes true only in a step in which the active    *)
(* piece has just locked and the piece generated next fails the validity   *)
(* check of placePiece at its spawn position; a move, a rotation, a pause  *)
(* or a gravity step that moved the piece never sets gameOver.             *)
(***************************************************************************)
C25_GameOverOnlyFromSpawn ==
    [][ (~tetrisGameOver /\ tetrisGameOver')
        => /\ tetrisEvent' \in {"tick", "ArrowDown"}
           /\ ~isValidMove(board, currentPiece.x, currentPiece.y + 1,
                           currentPiece.shape)
           /\ locks' = locks + 1
           /\ board' = ClearLines(LockPiece(board, currentPiece))
           /\ \E t \in PieceTypes :
                 ~isValidMove(SpawnCheckBoard(board, board'),
                              getRandomPiece(t).x, getRandomPiece(t).y,
                              getRandomPiece(t).shape) ]_vars

\* a lock that completed a row ended the game, on a board that has every
\* spawn position free once the row is gone
C25_Witness ==
    /\ tetrisGameOver
    /\ locks = 1
    /\ linesCleared = 1
    /\ \A t \in PieceTypes :
          isValidMove(board, getRandomPiece(t).x, getRandomPiece(t).y,
                      getRandomPiece(t).shape)

(***************************************************************************)
(* C26: Snake wall death.  Without invincibility, a tick whose new head    *)
(* has x < 0, x >= 20, y < 0 or y >= 20 sets gameOver with the death       *)
(* reason of exactly that wall (left, right, top, bottom) and a collision  *)
(* point equal to the head coordinate outside the board, and leaves the    *)
(* snake, the food and the score unchanged.                                *)
(***************************************************************************)
C26_WallDeath ==
    [][ LET hx == snake[1].x + direction.x
            hy == snake[1].y + direction.y
        IN  (/\ snakeEvent' = "tick"
             /\ ~tickLog'.skipped
             /\ ~isInvincible
             /\ (hx < 0 \/ hx >= 20 \/ hy < 0 \/ hy >= 20))
            => /\ snakeGameOver'
               /\ (hx < 0) => deathReason' = "wall-left wall"
               /\ (hx >= 20) => deathReason' = "wall-right wall"
               /\ (hy < 0) => deathReason' = "wall-top wall"
               /\ (hy >= 20) => deathReason' = "wall-bottom wall"
               /\ collisionPoint' = <<[x |-> hx, y |-> hy]>>
               /\ UNCHANGED <<snake, food, snakeScore>> ]_vars

\* the snake died on the top wall after the player turned it up
C26_Witness ==
    /\ snakeGameOver
    /\ deathReason = "wall-top wall"
    /\ collisionPoint = <<[x |-> 19, y |-> 0 - 1]>>
    /\ snake[1] = Cell(19, 0)

(***************************************************************************)
(* C27: Snake self-collision.  Without invincibility, a tick whose new     *)
(* head is on the board and on the cell of any segment of the snake as it  *)
(* was before the move, the tail that a move without growth would vacate   *)
(* included, sets gameOver with reason self-collision and leaves the snake *)
(* unchanged.                                                              *)
(***************************************************************************)
C27_SelfCollision ==
    [][ LET hx == snake[1].x + direction.x
            hy == snake[1].y + direction.y
        IN  (/\ snakeEvent' = "tick"
             /\ ~tickLog'.skipped
             /\ ~isInvincible
             /\ hx \in 0..19 /\ hy \in 0..19
             /\ \E i \in 1..Len(snake) : snake[i].x = hx /\ snake[i].y = hy)
            => /\ snakeGameOver'
               /\ deathReason' = "self-collision"
               /\ collisionPoint' = <<[x |-> hx, y |-> hy]>>
               /\ snake' = snake ]_vars

\* the head ran into the tail of a snake of four, which did not move
C27_Witness ==
    /\ snakeGameOver
    /\ deathReason = "self-collision"
    /\ Len(snake) = 4
    /\ collisionPoint = <<snake[4]>>
    /\ food # snake[4]

(***************************************************************************)
(* C28: Snake obstacle collision.  Without invincibility, a tick whose new *)
(* head is on the cell of any obstacle on the board sets gameOver with     *)
(* reason obstacle-collision and leaves the snake, the food and the score  *)
(* unchanged.                                                              *)
(***************************************************************************)
C28_ObstacleCollision ==
    [][ LET hx == snake[1].x + direction.x
            hy == snake[1].y + direction.y
        IN  (/\ snakeEvent' = "tick"
             /\ ~tickLog'.skipped
             /\ ~isInvincible
             /\ \E i \in 1..Len(obstacles) :
                   obstacles[i].x = hx /\ obstacles[i].y = hy)
            => /\ snakeGameOver'
               /\ deathReason' = "obstacle-collision"
               /\ UNCHANGED <<snake, food, snakeScore>> ]_vars

\* C28 as amended: the same for a new head that is on no segment of the
\* snake; a head that is on a segment and on an obstacle ends the game with
\* reason self-collision.
C28_ObstacleCollisionOffSnake ==
    [][ LET hx == snake[1].x + direction.x
            hy == snake[1].y + direction.y
            onSnake == \E i \in 1..Len(snake) : snake[i].x = hx /\ snake[i].y = hy
        IN  (/\ snakeEvent' = "tick"
             /\ ~tickLog'.skipped
             /\ ~isInvincible
             /\ \E i \in 1..Len(obstacles) :
                   obstacles[i].x = hx /\ obstacles[i].y = hy)
            => /\ snakeGameOver'
               /\ deathReason' = IF onSnake THEN "self-collision"
                                 ELSE "obstacle-collision"
               /\ collisionPoint' = <<[x |-> hx, y |-> hy]>>
               /\ UNCHANGED <<snake, food, snakeScore>> ]_vars

\* the head ran into an obstacle on a free cell
C28_Witness ==
    /\ snakeGameOver
    /\ deathReason = "obstacle-collision"
    /\ collisionPoint # <<>>
    /\ SomeAt(obstacles, collisionPoint[1])
    /\ ~SomeAt(snake, collisionPoint[1])

(***************************************************************************)
(* C29: while an invincibility effect is active, no Snake tick sets        *)
(* gameOver: a new head beyond a wall, on a segment of the snake or on an  *)
(* obstacle is committed as a normal move, wrapped to the opposite edge    *)
(* when it left the board.                                                 *)
(***************************************************************************)
C29_InvincibleNeverDies ==
    [][ LET hx == snake[1].x + direction.x
            hy == snake[1].y + direction.y
            head == [x |-> (hx + 20) % 20, y |-> (hy + 20) % 20]
        IN  (/\ snakeEvent' = "tick"
             /\ ~tickLog'.skipped
             /\ \E i \in 1..Len(activePowerUps) :
                   activePowerUps[i].type = "INVINCIBILITY")
            => /\ ~snakeGameOver'
               /\ UNCHANGED <<deathReason, collisionPoint>>
               /\ snake'[1] = head
               /\ \A i \in 2..Len(snake') : snake'[i] = snake[i - 1]
               /\ Len(snake') = IF head = food THEN Len(snake) + 1
                                ELSE Len(snake) ]_vars

\* an invincible snake of four moved its head onto the cell of its tail
C29_Witness ==
    /\ ~snakeGameOver
    /\ snakeEvent = "tick"
    /\ ~tickLog.skipped
    /\ Len(snake) = 4
    /\ snake[1] = Cell(3, 4)
    /\ snake[2] = Cell(3, 3)
    /\ isInvincible

\* the tokens of a list that are younger than the lifetime one tick later,
\* at that age
C30_Survivors(list, lifetime) ==
    {[list[i] EXCEPT !.age = @ + 1] : i \in {j \in 1..Len(list) : list[j].age + 1 < lifetime}}

\* the tokens of a list as a set
C30_Tokens(list) == {list[i] : i \in 1..Len(list)}

(***************************************************************************)
(* C30: Snake token bounds.  At the end of every tick there are at most 6  *)
(* obstacles and at most 2 power-up tokens on the board, every obstacle    *)
(* has an age in 0..79 and every power-up token an age in 0..49.  In a     *)
(* tick every token grows one tick older, a token whose age reaches its    *)
(* lifetime (80, 50) is removed, at most one token of age 0 is added to    *)
(* each list, and none is added to a list that is at its cap after aging.  *)
(***************************************************************************)
C30_TokenBounds ==
    /\ [](/\ Len(obstacles) <= 6
          /\ Len(powerUps) <= 2
          /\ \A i \in 1..Len(obstacles) : obstacles[i].age \in 0..79
          /\ \A i \in 1..Len(powerUps) : powerUps[i].age \in 0..49)
    /\ [][ (snakeEvent' = "tick" /\ ~tickLog'.skipped)
           => LET oldObstacles == C30_Survivors(obstacles, 80)
                  oldPowerUps == C30_Survivors(powerUps, 50)
                  newObstacles == {o \in C30_Tokens(obstacles') : o.age = 0}
                  newPowerUps == {q \in C30_Tokens(powerUps') : q.age = 0}
              IN  /\ C30_Tokens(obstacles') \ newObstacles = oldObstacles
                  /\ C30_Tokens(powerUps') \ newPowerUps \subseteq oldPowerUps
                  /\ \A q \in oldPowerUps :
                        q \in C30_Tokens(powerUps')
                        \/ (q.x = snake'[1].x /\ q.y = snake'[1].y)
                  /\ Cardinality(newObstacles) <= 1
                  /\ Cardinality(newPowerUps) <= 1
                  /\ Cardinality(oldObstacles) >= 6 => newObstacles = {}
                  /\ Cardinality(oldPowerUps) >= 2 => newPowerUps = {} ]_vars

\* the second tick found six obstacles after aging, one of them spawned by
\* the first tick in place of the one that reached age 80
C30_Witness ==
    /\ snakeEvent = "tick"
    /\ ticksDone = 2
    /\ Len(obstacles) = 6
    /\ obstacles[6].age = 1
    /\ obstacles[1].age = 62
    /\ ~SomeAt(obstacles, Cell(2, 2))

(***************************************************************************)
(* C31: Snake active-effect decay.  Every tick that is not skipped takes 1 *)
(* off the timeLeft of each active effect and removes the entries that     *)
(* reach 0, whatever tokens are on the board; the entries a pickup adds in *)
(* the tick start at 100.  Hence every active effect has timeLeft in       *)
(* 1..100 in every state and is gone at the latest 100 non-skipped ticks   *)
(* after its pickup.                                                       *)
(***************************************************************************)
C31_EffectDecay ==
    /\ [](\A i \in 1..Len(activePowerUps) : activePowerUps[i].timeLeft \in 1..100)
    /\ [][ (snakeEvent' = "tick" /\ ~tickLog'.skipped)
           => LET kept == SelectSeq(activePowerUps, LAMBDA a : a.timeLeft > 1)
              IN  /\ Len(activePowerUps') >= Len(kept)
                  /\ \A k \in 1..Len(kept) :
                        /\ activePowerUps'[k].type = kept[k].type
                        /\ activePowerUps'[k].timeLeft = kept[k].timeLeft - 1
                  /\ \A k \in (Len(kept) + 1)..Len(activePowerUps') :
                        /\ activePowerUps'[k].timeLeft = 100
                        /\ tickLog'.collected = activePowerUps'[k].type ]_vars

\* two ticks on: the effect at 1 went with the first tick, the effect at 2
\* with the second, the others are 2 lower and the board has no token left
C31_Witness ==
    /\ ticksDone = 2
    /\ ~strictDev
    /\ activePowerUps = <<Effect("SCORE_BOOST", 48), Effect("INVINCIBILITY", 99)>>
    /\ powerUps = <<>>

\* 2 to the power k
RECURSIVE C32_Pow2(_)
C32_Pow2(k) == IF k = 0 THEN 1 ELSE 2 * C32_Pow2(k - 1)

\* the number of effects of type t in a list
C32_Count(effects, t) == Len(SelectSeq(effects, LAMBDA a : a.type = t))

(***************************************************************************)
(* C32: the effective tick interval of Snake.  getCurrentGameSpeed returns *)
(* 150 divided by the values of all active gameSpeed effects, that is      *)
(* 150 * 2^(slow-motion count - speed-boost count): 300 with one           *)
(* slow-motion, 75 with one speed-boost, 150 with one of each; score       *)
(* multiplier and invincibility effects do not change it.                  *)
(***************************************************************************)
C32_GameSpeed ==
    probe.fn = "getCurrentGameSpeed"
    => LET slow == C32_Count(probe.effects, "SLOW_DOWN")
           boost == C32_Count(probe.effects, "SPEED_UP")
           other == Len(probe.effects) - slow - boost
       IN  /\ probe.speed.num * C32_Pow2(boost)
                 = 150 * C32_Pow2(slow) * probe.speed.den
           /\ (slow = 1 /\ boost = 0) => probe.speed = [num |-> 300, den |-> 1]
           /\ (slow = 0 /\ boost = 1) => probe.speed = [num |-> 75, den |-> 1]
           /\ (slow = 1 /\ boost = 1) => probe.speed = [num |-> 150, den |-> 1]
           /\ (slow = 0 /\ boost = 0) => probe.speed = [num |-> 150, den |-> 1]

\* two speed-boosts around a score multiplier: 37.5 ms
C32_Witness ==
    /\ probe.fn = "getCurrentGameSpeed"
    /\ Len(probe.effects) = 3
    /\ probe.effects[1].type = "SPEED_UP"
    /\ probe.effects[2].type = "SCORE_BOOST"
    /\ probe.effects[3].type = "SPEED_UP"
    /\ probe.speed = [num |-> 75, den |-> 2]

\* no obstacle shares a cell with the food, a power-up token or another
\* obstacle, and no power-up token with the food or another power-up token
C33_Distinct(f, obs, pus) ==
    /\ \A i \in 1..Len(obs) :
          /\ ~(obs[i].x = f.x /\ obs[i].y = f.y)
          /\ \A j \in 1..Len(pus) : ~(obs[i].x = pus[j].x /\ obs[i].y = pus[j].y)
          /\ \A j \in 1..Len(obs) :
                j # i => ~(obs[i].x = obs[j].x /\ obs[i].y = obs[j].y)
    /\ \A i \in 1..Len(pus) :
          /\ ~(pus[i].x = f.x /\ pus[i].y = f.y)
          /\ \A j \in 1..Len(pus) :
                j # i => ~(pus[i].x = pus[j].x /\ pus[i].y = pus[j].y)

(***************************************************************************)
(* C33: the food, the obstacles and the power-up tokens of Snake lie on    *)
(* pairwise distinct cells at the end of every tick, also of a tick that   *)
(* generates food, an obstacle and a power-up together.  Stated for the    *)
(* ticks that begin with the entities on distinct cells.                   *)
(***************************************************************************)
C33_DistinctCells ==
    [][ (/\ snakeEvent' = "tick"
         /\ ~tickLog'.skipped
         /\ C33_Distinct(food, obstacles, powerUps))
        => C33_Distinct(food', obstacles', powerUps') ]_vars

(***************************************************************************)
(* C34: Snake generator failure.  A tick whose generateObstacle (or        *)
(* generatePowerUp) gave null adds no token of that kind: the list holds   *)
(* aged tokens only and has not grown.  An obstacle a tick adds always     *)
(* lies on a cell that was a valid position, so none is added where no     *)
(* candidate passes.  Such a tick sets gameOver only for a collision of    *)
(* the step, moves the snake and lets the effects decay as any other tick. *)
(***************************************************************************)
C34_GeneratorNull ==
    [][ (snakeEvent' = "tick" /\ ~tickLog'.skipped)
        => /\ \A i \in 1..Len(obstacles') :
                 obstacles'[i].age = 0 => ~ObstacleBlocked(obstacles'[i])
           /\ tickLog'.obstacle = "null"
                 => /\ Len(obstacles') <= Len(obstacles)
                    /\ \A i \in 1..Len(obstacles') : obstacles'[i].age >= 1
           /\ tickLog'.powerUp = "null"
                 => /\ Len(powerUps') <= Len(powerUps)
                    /\ \A i \in 1..Len(powerUps') : powerUps'[i].age >= 1
           /\ (tickLog'.obstacle = "null" \/ tickLog'.powerUp = "null")
                 => /\ snakeGameOver' = (StepOutcome.death # "null")
                    /\ IF StepOutcome.death = "null"
                       THEN snake'[1] = StepOutcome.head /\ snake' # snake
                       ELSE snake' = snake
                    /\ Len(activePowerUps') >= Len(DecayEffects(activePowerUps))
                    /\ SubSeq(activePowerUps', 1, Len(DecayEffects(activePowerUps)))
                          = DecayEffects(activePowerUps) ]_vars

\* the coiled snake one step on: both generators gave null in the tick, the
\* board has no token and the game goes on
C34_Witness ==
    /\ tickLog.obstacle = "null"
    /\ tickLog.powerUp = "null"
    /\ Len(snake) = 18
    /\ snake[1] = Cell(11, 10)
    /\ obstacles = <<>>
    /\ powerUps = <<>>
    /\ ~snakeGameOver

(***************************************************************************)
(* C35: Snake spawns happen only while Running.  The tick that sets        *)
(* gameOver adds no obstacle and no power-up token: after it every token   *)
(* on the board has an age of 1 or more.                                   *)
(***************************************************************************)
C35_NoSpawnOnLethalTick ==
    [][ (snakeEvent' = "tick" /\ ~snakeGameOver /\ snakeGameOver')
        => /\ \A i \in 1..Len(obstacles') : obstacles'[i].age >= 1
           /\ \A i \in 1..Len(powerUps') : powerUps'[i].age >= 1 ]_vars

(***************************************************************************)
(* C36: Snake timer.  In every state exactly one tick timer is live, and   *)
(* its interval is the one getCurrentGameSpeed gives for the present       *)
(* effect list: an event that changes the list clears the previous timer   *)
(* before it creates the new one.  Hence a tick is never delivered by a    *)
(* timer that was created for an earlier interval.                         *)
(***************************************************************************)
C36_OneTimer ==
    /\ [](/\ Len(gameInterval) = 1
          /\ gameInterval[1] = getCurrentGameSpeed(activePowerUps))
    /\ [][ snakeEvent' = "tick"
           => \A i \in 1..Len(gameInterval) :
                 gameInterval[i] = getCurrentGameSpeed(activePowerUps) ]_vars

\* the slow-down effect at 1 and the speed-up at 2 both ended: the third
\* tick is delivered at the base interval by the only timer
C36_Witness ==
    /\ ticksDone = 2
    /\ snakeEvent = "tick"
    /\ Len(activePowerUps) >= 1
    /\ \A i \in 1..Len(activePowerUps) : activePowerUps[i].type = "SCORE_BOOST"
    /\ gameInterval = <<[num |-> GAME_SPEED, den |-> 1]>>

(***************************************************************************)
(* C37: paused and game over exclude each other.  In neither game are the  *)
(* paused flag and the gameOver flag true in the same state, whatever      *)
(* ticks, keys, pause toggles and restarts came before.  In Snake a paused *)
(* game is a started game, and a tick that fires while the game is paused  *)
(* does not end it.                                                        *)
(***************************************************************************)
C37_PausedNotGameOver ==
    /\ [](/\ ~(isPaused /\ tetrisGameOver)
          /\ ~(paused /\ snakeGameOver)
          /\ paused => gameStarted)
    /\ [][ (snakeEvent' = "tick" /\ paused) => snakeGameOver' = snakeGameOver ]_vars

\* the space key after the end of a Snake game: the game stays unpaused
C37_Witness ==
    /\ activeTab = "snake"
    /\ snakeGameOver
    /\ snakeEvent = "Space"
    /\ gameStarted
    /\ ~paused

(***************************************************************************)
(* C38: the snake stays on the board.  In every state the snake has at     *)
(* least one segment and every segment has 0 <= x < 20 and 0 <= y < 20,    *)
(* under invincibility as without it: a head cell outside the board is     *)
(* never taken into the snake.  Once the game is started the direction is  *)
(* one of the four unit vectors along an axis.                             *)
(***************************************************************************)
C38_SnakeOnBoard ==
    /\ Len(snake) >= 1
    /\ \A i \in 1..Len(snake) :
          /\ snake[i].x >= 0 /\ snake[i].x < 20
          /\ snake[i].y >= 0 /\ snake[i].y < 20
    /\ gameStarted => direction \in {Cell(1, 0), Cell(0 - 1, 0), Cell(0, 1),
                                     Cell(0, 0 - 1)}

\* the invincible snake went through the left wall and came back in on the
\* right edge, over the obstacle there
C38_Witness ==
    /\ snake[1] = Cell(19, 7)
    /\ snake[2] = Cell(0, 7)
    /\ SomeAt(obstacles, Cell(19, 7))
    /\ ~snakeGameOver
    /\ snakeEvent = "tick"

(***************************************************************************)
(* C39: Snake restart.  Whatever the state before it (idle, running,       *)
(* paused or game over), startGame leaves the snake [(10,10)], the food on *)
(* (5,5), the direction (1,0), the score 0, the game started, not over and *)
(* not paused, no death reason and no collision point, and no obstacle, no *)
(* power-up and no active effect: nothing of the game before survives.     *)
(***************************************************************************)
C39_StartGameResets ==
    [][ snakeEvent' = "startGame"
        => /\ snake' = <<[x |-> 10, y |-> 10]>>
           /\ food' = [x |-> 5, y |-> 5]
           /\ direction' = [x |-> 1, y |-> 0]
           /\ snakeScore' = 0
           /\ gameStarted' /\ ~snakeGameOver' /\ ~paused'
           /\ deathReason' = "null"
           /\ collisionPoint' = <<>>
           /\ obstacles' = <<>> /\ powerUps' = <<>> /\ activePowerUps' = <<>> ]_vars

\* a start as the second input of a run, after a pause, a key or an earlier
\* start: the new game stands at its first position
C39_Witness ==
    /\ snakeEvent = "startGame"
    /\ snakeInputs = 2
    /\ snake = <<Cell(10, 10)>>
    /\ snakeScore = 0
    /\ gameStarted /\ ~snakeGameOver /\ ~paused
    /\ activePowerUps = <<>>

\* a gravity step (timer tick or ArrowDown, game neither paused nor over) on
\* the I-piece in its spawn shape at x = 5 over the empty board; the piece
\* spawned at y = 0 and every earlier gravity step moved it one row, so y is
\* the number of gravity steps before this one
C40_GravityStepOnI ==
    /\ tetrisEvent' \in {"tick", "ArrowDown"}
    /\ ~tetrisGameOver /\ ~isPaused
    /\ board = createEmptyBoard
    /\ currentPiece.type = "I"
    /\ currentPiece.shape = TETROMINOES["I"].shape
    /\ currentPiece.x = 5

(***************************************************************************)
(* C40: Tetris step count, as stated.  On the empty 15x15 board the        *)
(* I-piece spawned at x = 5, y = 0 is locked after four gravity steps: the *)
(* fourth step, taken after three moves, locks it.                         *)
(***************************************************************************)
C40_LockedAfterFourSteps ==
    [][ (C40_GravityStepOnI /\ currentPiece.y = 3) => locks' = locks + 1 ]_vars

(***************************************************************************)
(* C40, amended: on the empty 15x15 board the I-piece spawned at x = 5,    *)
(* y = 0 is locked by the fourteenth gravity step.  Each of the first      *)
(* thirteen steps moves it down one row and leaves the board empty; the    *)
(* step taken at y = 13 locks it on the bottom row, columns 5 to 8, and    *)
(* no other step locks it.                                                 *)
(***************************************************************************)
C40_LockedAfterFourteenSteps ==
    [][ C40_GravityStepOnI
        => /\ locks' = locks + 1 <=> currentPiece.y = 13
           /\ currentPiece.y < 13
                 => /\ currentPiece' = [currentPiece EXCEPT !.y = @ + 1]
                    /\ board' = board
           /\ currentPiece.y = 13
                 => \A r \in 1..15, c \in 1..15 :
                       (board'[r][c] # EmptyCell) <=> (r = 15 /\ c \in 6..9) ]_vars

\* thirteen ticks moved the piece and the fourteenth locked it: the bottom
\* row holds its four cells, the rest of the board is empty and the next
\* piece stands at the top
C40_Witness ==
    /\ tetrisEvent = "tick"
    /\ inputs = 0
    /\ locks = 1
    /\ ~tetrisGameOver
    /\ currentPiece.y = 0
    /\ \A r \in 1..15, c \in 1..15 :
          (board[r][c] # EmptyCell) <=> (r = 15 /\ c \in 6..9)

====
